---- MODULE Spec2Model ----
(***************************************************************************)
(* A model of learning-lm-go: the tensor container (tensor/tensor.go), the *)
(* key/value cache (kvcache/kvcache.go) and the decode loop                *)
(* (model/model.go).                                                       *)
(*                                                                         *)
(* uint32 arithmetic is modelled modulo Modulus = 2^UintBits.  The code's  *)
(* word is 32 bits wide; the model keeps the wrap-around and scales the    *)
(* width down so that the wrapping cases are reachable with small values.  *)
(* A Go slice is a window [off, off+len) on a backing array of the heap;   *)
(* its capacity runs to the end of that array.                             *)
(***************************************************************************)
EXTENDS Integers, Sequences, FiniteSets, TLC

\* ------------------------------------------------------------------ bounds
\* Width of the modelled unsigned word (the code's uint32 has 32 bits).
UintBits == 7
Modulus == 2 ^ UintBits
\* Half of the word range: Half * 2 wraps to 0.
Half == Modulus \div 2
\* Largest ordinary layer count, row count and row width of the cache model.
MaxLayers == 2
MaxRows == 2
MaxDim == 2
\* Writes made through views, and cache operations, in one bounded run.
MaxWrites == 1
MaxOps == 5

U32(x) == x % Modulus

\* ------------------------------------------------------------------ state
VARIABLES
    cfg,        \* the loaded model's configuration
    tens,       \* tensor objects of the model and of the running Forward
    gen,        \* Generate: position and locals
    fwd,        \* Forward: locals
    kc,       \* the KVCache object: NoCache, or its fields
    heap,     \* backing arrays: array id -> [0..n-1 -> element]
    views,    \* the views a caller holds: slot -> NoView or a Tensor
    ret,      \* the last operation, its arguments and its outcome
    nWrites,  \* writes made through views so far
    nOps,     \* cache operations made so far (bounded runs only)
    tn,       \* a tensor built by NewTensor / EmptyTensor: NoView or it
    parked     \* a second Generate call, while the first one runs

vars ==
    <<kc, heap, views, ret, nWrites, nOps, tn, cfg, tens, gen, fwd, parked>>

NoCache == [created |-> FALSE]
NoView == [held |-> FALSE]
NoRet == [op |-> "none"]
Slots == 1 .. 2

\* ------------------------------------------------------- tensor/tensor.go
\* calculateSize: 0 for the empty shape, else the uint32 product.
RECURSIVE Product32(_)
Product32(shape) ==
    IF shape = <<>> THEN 1
    ELSE U32(Product32(SubSeq(shape, 1, Len(shape) - 1)) * shape[Len(shape)])

calculateSize(shape) ==
    IF Len(shape) = 0 THEN 0 ELSE Product32(shape)

\* The product of the extents as a mathematical integer (0 for no extents).
RECURSIVE MathProduct(_)
MathProduct(shape) ==
    IF shape = <<>> THEN 1
    ELSE MathProduct(SubSeq(shape, 1, Len(shape) - 1)) * shape[Len(shape)]

MathSize(shape) ==
    IF Len(shape) = 0 THEN 0 ELSE MathProduct(shape)

\* make([]T, n): a fresh zeroed array.
MakeZero(n) == [i \in 0 .. n - 1 |-> 0]

\* A Tensor value: data is the window [off, off+len) of heap[arr].
Tensor(arr, off, len, shape, length) ==
    [held |-> TRUE, arr |-> arr, off |-> off, len |-> len,
     shape |-> shape, length |-> length]

\* EmptyTensor(shape) on a fresh array arr: the tensor (its buffer has
\* calculateSize(shape) elements, see EmptyBuffer).
EmptyTensor(arr, shape) ==
    Tensor(arr, 0, calculateSize(shape), shape, calculateSize(shape))

EmptyBuffer(shape) == MakeZero(calculateSize(shape))

\* cap(t.data): the backing array from the window's start to its end.
Cap(h, t) == Cardinality(DOMAIN h[t.arr]) - t.off

Panic == [held |-> FALSE, panic |-> TRUE]

\* Slice: the size check in uint32, then Go's slice expression
\* data[offset : offset+newSize] (bounds checked against the capacity).
Slice(h, t, offset, shape) ==
    LET newSize == calculateSize(shape)
        hi == U32(offset + newSize)
    IN  IF hi > t.length THEN Panic
        ELSE IF offset > hi \/ hi > Cap(h, t) THEN Panic
        ELSE Tensor(t.arr, t.off + offset, hi - offset, shape, newSize)

\* ----------------------------------------------------- kvcache/kvcache.go
KArr(layer) == <<"k", layer>>
VArr(layer) == <<"v", layer>>

\* The cache's own tensors kCache[layer], vCache[layer]: [maxSeqLen, dim].
CacheTensor(arr, c) == EmptyTensor(arr, <<c.maxSeqLen, c.dim>>)

NewKVCacheOk(nLayers, maxSeqLen, dim, initLen) ==
    ~(nLayers <= 0 \/ maxSeqLen <= 0 \/ dim <= 0) /\ ~(initLen > maxSeqLen)

NewKVCacheObj(nLayers, maxSeqLen, dim, initLen) ==
    [created |-> TRUE, nLayers |-> nLayers, maxSeqLen |-> maxSeqLen,
     dim |-> dim, length |-> initLen]

NewKVCacheHeap(nLayers, maxSeqLen, dim) ==
    [a \in {KArr(l) : l \in 0 .. nLayers - 1} \cup
           {VArr(l) : l \in 0 .. nLayers - 1} |->
        EmptyBuffer(<<maxSeqLen, dim>>)]

\* A guard that admits one row too many.
IncrementFails_OffByOne(c, seqLen) ==
    U32(c.length + seqLen) > c.maxSeqLen + 1

\* A guard that refuses the last row.
IncrementFails_AtCapacity(c, seqLen) ==
    U32(c.length + seqLen) >= c.maxSeqLen

\* Increment's guard: the uint32 sum compared with maxSeqLen.
IncrementFails(c, seqLen) == U32(c.length + seqLen) > c.maxSeqLen

IncrementLen(c, seqLen) == U32(c.length + seqLen)

\* KCache / VCache: the two range checks, then the Slice of the layer's
\* tensor from row start to the logical length.
CacheViewErr(c, layer, start) ==
    IF layer >= c.nLayers THEN "layer index out of range"
    ELSE IF start >= c.length THEN "start index out of range"
    ELSE "none"

CacheView(h, c, arr, start) ==
    Slice(h, CacheTensor(arr, c), U32(start * c.dim),
          <<U32(c.length - start), c.dim>>)

Length(c) == c.length
MaxSeqLen(c) == c.maxSeqLen
Dim(c) == c.dim
NumLayers(c) == c.nLayers

\* --------------------------------------------------------- argument sets
LayerArgs == 0 .. MaxLayers
SeqLenArgs == (0 .. MaxRows) \cup {Half, Half + 1}
DimArgs == 0 .. MaxDim
InitLenArgs == (0 .. MaxRows) \cup {Half + 1}
IncArgs == (0 .. MaxRows) \cup {Half, Modulus - 1}
StartArgs == (0 .. MaxRows) \cup {Half}
Vals == {1}

\* ---------------------------------------------------------------- actions
Init ==
    /\ tn = NoView
    /\ kc = NoCache
    /\ heap = << >>
    /\ views = [s \in Slots |-> NoView]
    /\ ret = NoRet
    /\ nWrites = 0
    /\ nOps = 0
    /\ cfg = [status |-> "none"]
    /\ tens = << >>
    /\ gen = [pc |-> "idle"]
    /\ fwd = [seqLen |-> 0, pastSeqLen |-> 0, totalSeqLen |-> 0, i |-> 0,
              incErr |-> FALSE, copied |-> 0]
    /\ parked = [gen |-> [pc |-> "idle"],
                fwd |-> [seqLen |-> 0, pastSeqLen |-> 0, totalSeqLen |-> 0,
                         i |-> 0, incErr |-> FALSE, copied |-> 0],
                kc |-> NoCache, heap |-> << >>, tens |-> << >>]

NewKVCache(nLayers, maxSeqLen, dim, initLen) ==
    /\ ~kc.created
    /\ IF NewKVCacheOk(nLayers, maxSeqLen, dim, initLen)
       THEN /\ kc' = NewKVCacheObj(nLayers, maxSeqLen, dim, initLen)
            /\ heap' = NewKVCacheHeap(nLayers, maxSeqLen, dim)
            /\ ret' = [op |-> "NewKVCache", status |-> "ok",
                       nLayers |-> nLayers, maxSeqLen |-> maxSeqLen,
                       dim |-> dim, initLen |-> initLen]
       ELSE /\ ret' = [op |-> "NewKVCache", status |-> "err",
                       nLayers |-> nLayers, maxSeqLen |-> maxSeqLen,
                       dim |-> dim, initLen |-> initLen]
            /\ UNCHANGED <<kc, heap>>
    /\ UNCHANGED <<views, nWrites>>

Increment(seqLen) ==
    /\ kc.created
    /\ IF IncrementFails(kc, seqLen)
       THEN /\ ret' = [op |-> "Increment", status |-> "err", n |-> seqLen]
            /\ UNCHANGED kc
       ELSE /\ kc' = [kc EXCEPT !.length = IncrementLen(kc, seqLen)]
            /\ ret' = [op |-> "Increment", status |-> "ok", n |-> seqLen]
    /\ UNCHANGED <<heap, views, nWrites>>

\* The outcome of KCache(layer, start) / VCache(layer, start) on array arr.
CacheCallRet(op, arr, layer, start) ==
    LET e == CacheViewErr(kc, layer, start)
        v == CacheView(heap, kc, arr, start)
        r == [op |-> op, layer |-> layer, start |-> start]
    IN  IF e # "none" THEN r @@ [status |-> "err", view |-> NoView]
        ELSE IF ~v.held THEN r @@ [status |-> "panic", view |-> NoView]
        ELSE r @@ [status |-> "ok", view |-> v]

CacheCall(op, arr, layer, start) ==
    /\ kc.created
    /\ ret' = CacheCallRet(op, arr, layer, start)
    /\ UNCHANGED <<kc, heap, nWrites>>

KCache(layer, start) ==
    CacheCall("KCache", KArr(layer), layer, start) /\ UNCHANGED views

VCache(layer, start) ==
    CacheCall("VCache", VArr(layer), layer, start) /\ UNCHANGED views

NextKV ==
    \/ \E nl \in LayerArgs, ms \in SeqLenArgs, d \in DimArgs,
          il \in InitLenArgs : NewKVCache(nl, ms, d, il) /\ UNCHANGED <<nOps, parked, tn, cfg, tens, gen, fwd>>
    \/ \E n \in IncArgs : Increment(n) /\ UNCHANGED <<nOps, parked, tn, cfg, tens, gen, fwd>>
    \/ \E l \in LayerArgs, st \in StartArgs : KCache(l, st) /\ UNCHANGED <<nOps, parked, tn, cfg, tens, gen, fwd>>
    \/ \E l \in LayerArgs, st \in StartArgs : VCache(l, st) /\ UNCHANGED <<nOps, parked, tn, cfg, tens, gen, fwd>>

SpecKV == Init /\ [][NextKV]_vars

\* ------------------------------------------------- callers holding views
\* The element a held view w shows at index i of its data.
ViewAt(h, w, i) == h[w.t.arr][w.t.off + i]

FreeSlot == IF ~views[1].held THEN 1 ELSE 2

\* A caller keeps the view a successful KCache / VCache returned, with the
\* call that produced it.
KeepView(s) ==
    views' = IF ret'.status = "ok"
             THEN [views EXCEPT ![s] =
                     [held |-> TRUE, t |-> ret'.view, op |-> ret'.op,
                      layer |-> ret'.layer, start |-> ret'.start,
                      lenAt |-> Length(kc)]]
             ELSE views

KCacheKeep(layer, start) ==
    /\ ~views[2].held
    /\ CacheCall("KCache", KArr(layer), layer, start)
    /\ KeepView(FreeSlot)

VCacheKeep(layer, start) ==
    /\ ~views[2].held
    /\ CacheCall("VCache", VArr(layer), layer, start)
    /\ KeepView(FreeSlot)

\* view.Data()[i] = val, for an index inside the view's data.
WriteView(s, i, val) ==
    /\ views[s].held
    /\ nWrites < MaxWrites
    /\ i < views[s].t.len
    /\ heap' = [heap EXCEPT ![views[s].t.arr][views[s].t.off + i] = val]
    /\ nWrites' = nWrites + 1
    /\ ret' = [op |-> "WriteView", status |-> "ok", slot |-> s, i |-> i]
    /\ UNCHANGED <<kc, views>>

CountOp ==
    /\ nOps < MaxOps
    /\ nOps' = nOps + 1
    /\ UNCHANGED <<tn, cfg, tens, gen, fwd, parked>>

NextView ==
    \/ \E nl \in LayerArgs, ms \in SeqLenArgs, d \in DimArgs,
          il \in InitLenArgs : NewKVCache(nl, ms, d, il) /\ CountOp
    \/ \E n \in IncArgs : Increment(n) /\ CountOp
    \/ \E l \in LayerArgs, st \in StartArgs : KCacheKeep(l, st) /\ CountOp
    \/ \E l \in LayerArgs, st \in StartArgs : VCacheKeep(l, st) /\ CountOp
    \/ \E s \in Slots, i \in 0 .. MaxRows * MaxDim - 1, v \in Vals :
          WriteView(s, i, v) /\ CountOp

SpecView == Init /\ [][NextView]_vars

\* view.Reshape(newShape) on a held view: the shape field of that tensor
\* object is replaced when the sizes agree; otherwise the call panics.
ReshapeShapes ==
    {<<x>> : x \in 1 .. MaxRows * MaxDim} \cup
    {<<1, x>> : x \in 1 .. MaxRows * MaxDim}

\* A Reshape that reaches every view of the same buffer.
ReshapeView_Shared(s, newShape) ==
    /\ views[s].held
    /\ IF calculateSize(newShape) # views[s].t.length
       THEN /\ ret' = [op |-> "Reshape", shape |-> newShape, slot |-> s,
                       status |-> "panic"]
            /\ UNCHANGED views
       ELSE /\ ret' = [op |-> "Reshape", shape |-> newShape, slot |-> s,
                       status |-> "ok"]
            /\ views' = [x \in Slots |->
                           IF views[x].held /\ views[x].t.arr = views[s].t.arr
                           THEN [views[x] EXCEPT !.t.shape = newShape]
                           ELSE views[x]]
    /\ UNCHANGED <<kc, heap, nWrites>>

ReshapeView(s, newShape) ==
    /\ views[s].held
    /\ IF calculateSize(newShape) # views[s].t.length
       THEN /\ ret' = [op |-> "Reshape", shape |-> newShape, slot |-> s,
                       status |-> "panic"]
            /\ UNCHANGED views
       ELSE /\ ret' = [op |-> "Reshape", shape |-> newShape, slot |-> s,
                       status |-> "ok"]
            /\ views' = [views EXCEPT ![s].t.shape = newShape]
    /\ UNCHANGED <<kc, heap, nWrites>>

\* A cache, the views callers hold, and writes and reshapes through them.
NextFrame ==
    \/ \E nl \in LayerArgs, ms \in SeqLenArgs, d \in DimArgs,
          il \in InitLenArgs : NewKVCache(nl, ms, d, il) /\ CountOp
    \/ \E l \in LayerArgs, st \in StartArgs : KCacheKeep(l, st) /\ CountOp
    \/ \E l \in LayerArgs, st \in StartArgs : VCacheKeep(l, st) /\ CountOp
    \/ \E s \in Slots, i \in 0 .. MaxRows * MaxDim - 1, v \in Vals :
          WriteView(s, i, v) /\ CountOp
    \/ \E s \in Slots, newShape \in ReshapeShapes :
          ReshapeView(s, newShape) /\ CountOp

SpecFrame == Init /\ [][NextFrame]_vars

\* ------------------------------------------------ building tensors
\* Extents, and lengths of the data slice handed to NewTensor (a Go slice
\* length is an int: it may exceed the uint32 range).
MaxRank == 3
MaxExtent == 2
ExtentArgs == (0 .. MaxExtent) \cup {Half, Half + 1}

Shapes(n) ==
    IF n = 0 THEN {<<>>}
    ELSE UNION {[1 .. k -> ExtentArgs] : k \in 0 .. n}

DataLenArgs == (0 .. MaxExtent * MaxExtent) \cup {Modulus, Modulus + 2}

TArr == <<"t">>

\* NewTensor(data, shape): panics unless len(data) = int(total); keeps the
\* caller's slice as its data.
NewTensorOk(dataLen, shape) == ~(dataLen # calculateSize(shape))

NewTensorObj(dataLen, shape) ==
    Tensor(TArr, 0, dataLen, shape, calculateSize(shape))

NewTensor(dataLen, shape) ==
    /\ ret' = [op |-> "NewTensor", dataLen |-> dataLen, shape |-> shape,
               status |-> IF NewTensorOk(dataLen, shape) THEN "ok"
                          ELSE "panic"]
    /\ IF NewTensorOk(dataLen, shape)
       THEN /\ tn' = NewTensorObj(dataLen, shape)
            /\ heap' = (TArr :> [i \in 0 .. dataLen - 1 |-> 1])
       ELSE /\ tn' = NoView
            /\ heap' = << >>
    /\ UNCHANGED <<kc, views, nWrites, nOps, parked>>

EmptyTensorCall(shape) ==
    /\ ret' = [op |-> "EmptyTensor", shape |-> shape, status |-> "ok"]
    /\ tn' = EmptyTensor(TArr, shape)
    /\ heap' = (TArr :> EmptyBuffer(shape))
    /\ UNCHANGED <<kc, views, nWrites, nOps, parked>>

\* Size(): the cached element count.
Size(t) == t.length

\* A run builds one tensor.
NextTensor ==
    \/ \E shape \in Shapes(MaxRank), n \in DataLenArgs :
          ret.op = "none" /\ NewTensor(n, shape)
            /\ UNCHANGED <<cfg, tens, gen, fwd>>
    \/ \E shape \in Shapes(MaxRank) :
          ret.op = "none" /\ EmptyTensorCall(shape)
            /\ UNCHANGED <<cfg, tens, gen, fwd>>

SpecTensor == Init /\ [][NextTensor]_vars

\* ------------------------------------------- reshaping and indexing
\* At: the index count and each index are checked, the offset is folded
\* in uint32, and the element is taken from Data() (Go checks the offset
\* against the length of the data).
RECURSIVE AtFold(_, _, _, _)
AtFold(shape, index, i, offset) ==
    IF i > Len(shape) THEN [ok |-> TRUE, offset |-> offset]
    ELSE IF index[i] >= shape[i] THEN [ok |-> FALSE]
    ELSE AtFold(shape, index, i + 1, U32(offset * shape[i] + index[i]))

At(t, index) ==
    IF Len(index) # Len(t.shape) THEN [ok |-> FALSE]
    ELSE LET r == AtFold(t.shape, index, 1, 0)
         IN  IF ~r.ok THEN r
             ELSE IF r.offset >= t.len THEN [ok |-> FALSE]
             ELSE r

\* Shapes and index tuples handed to Reshape and At.
IndexArgs == (0 .. MaxExtent) \cup {Half - 1, Half}
AtShapes == Shapes(2) \cup [1 .. 3 -> 1 .. MaxExtent]
AtIndexes ==
    UNION {[1 .. k -> IndexArgs] : k \in 0 .. 2} \cup [1 .. 3 -> 0 .. MaxExtent]
AtVals == {2}

\* t.Reshape(newShape) on the tensor built before.
ReshapeCall(newShape) ==
    /\ tn.held
    /\ IF calculateSize(newShape) # tn.length
       THEN /\ ret' = [op |-> "Reshape", shape |-> newShape,
                       status |-> "panic"]
            /\ UNCHANGED tn
       ELSE /\ ret' = [op |-> "Reshape", shape |-> newShape,
                       status |-> "ok"]
            /\ tn' = [tn EXCEPT !.shape = newShape]
    /\ UNCHANGED <<kc, heap, views, nWrites, nOps, parked>>

\* *t.At(index...) = val
AtCall(index, val) ==
    /\ tn.held
    /\ nWrites < MaxWrites
    /\ IF At(tn, index).ok
       THEN /\ ret' = [op |-> "At", index |-> index, status |-> "ok",
                       offset |-> At(tn, index).offset]
            /\ heap' = [heap EXCEPT ![tn.arr][tn.off + At(tn, index).offset]
                                       = val]
            /\ nWrites' = nWrites + 1
       ELSE /\ ret' = [op |-> "At", index |-> index, status |-> "panic"]
            /\ UNCHANGED <<heap, nWrites>>
    /\ UNCHANGED <<kc, tn, views, nOps, parked>>

NextAt ==
    \/ \E shape \in AtShapes, n \in DataLenArgs :
          ret.op = "none" /\ NewTensor(n, shape)
            /\ UNCHANGED <<cfg, tens, gen, fwd>>
    \/ \E shape \in AtShapes :
          ret.op = "none" /\ EmptyTensorCall(shape)
            /\ UNCHANGED <<cfg, tens, gen, fwd>>
    \/ \E shape \in AtShapes :
          ReshapeCall(shape) /\ UNCHANGED <<cfg, tens, gen, fwd>>
    \/ \E index \in AtIndexes, val \in AtVals :
          AtCall(index, val) /\ UNCHANGED <<cfg, tens, gen, fwd>>

SpecAt == Init /\ [][NextAt]_vars

\* ------------------------------------------------------------ slicing
OffsetArgs == (0 .. MaxExtent * MaxExtent) \cup {Half, Modulus - 1}

\* v := t.Slice(offset, shape) on the tensor built before; the caller
\* keeps v.
SliceCall(offset, shape) ==
    /\ tn.held
    /\ ~views[1].held
    /\ IF Slice(heap, tn, offset, shape).held
       THEN /\ ret' = [op |-> "Slice", offset |-> offset, shape |-> shape,
                       status |-> "ok"]
            /\ views' = [views EXCEPT ![1] =
                           [held |-> TRUE,
                            t |-> Slice(heap, tn, offset, shape)]]
       ELSE /\ ret' = [op |-> "Slice", offset |-> offset, shape |-> shape,
                       status |-> "panic"]
            /\ UNCHANGED views
    /\ UNCHANGED <<kc, heap, tn, nWrites, nOps, parked>>

NextSlice ==
    \/ \E shape \in AtShapes, n \in DataLenArgs :
          ret.op = "none" /\ NewTensor(n, shape)
            /\ UNCHANGED <<cfg, tens, gen, fwd>>
    \/ \E shape \in AtShapes :
          ret.op = "none" /\ EmptyTensorCall(shape)
            /\ UNCHANGED <<cfg, tens, gen, fwd>>
    \/ \E offset \in OffsetArgs, shape \in AtShapes :
          SliceCall(offset, shape) /\ UNCHANGED <<cfg, tens, gen, fwd>>
    \/ \E i \in 0 .. MaxExtent * MaxExtent - 1, v \in AtVals :
          WriteView(1, i, v) /\ CountOp

SpecSlice == Init /\ [][NextSlice]_vars

\* ------------------------------------------------- tensor/operators.go
\* The kernels act on a frame m = [h, ts, fault]: the arrays, the tensor
\* objects by name (a *Tensor; Reshape changes the object's shape in
\* place), and "none", "panic" (the call aborted) or "err" (a kernel
\* returned an error).  A kernel applied to a faulted frame does nothing:
\* the fault propagates to the caller.
\*
\* Element values are abstracted to the residues modulo ValMod.  Sums,
\* products and copies are computed as the code computes them, modulo
\* ValMod; the floating-point functions (square root, exponential, sine,
\* cosine, sigmoid) are replaced by fixed residue functions of the same
\* arguments, so that every kernel reads and writes the elements the
\* code reads and writes.
ValMod == 3
V(x) == x % ValMod

Put(f, id, x) == [k \in DOMAIN f \cup {id} |-> IF k = id THEN x ELSE f[k]]

\* t.Data()[i]
Data(h, t, i) == h[t.arr][t.off + i]

Abort(m) == [m EXCEPT !.fault = "panic"]
Fail(m) == [m EXCEPT !.fault = "err"]

\* A new tensor object out over a fresh array arr.
Alloc(m, out, arr, shape, length) ==
    [m EXCEPT !.h = Put(m.h, out, arr),
              !.ts = Put(m.ts, out,
                         Tensor(out, 0, Cardinality(DOMAIN arr), shape,
                                length))]

\* The array of tensor t with the elements of its data rewritten by f,
\* a function of the data index.
Rewrite(h, t, f) ==
    [h EXCEPT ![t.arr] =
        [j \in DOMAIN h[t.arr] |->
            IF j >= t.off /\ j < t.off + t.len THEN f[j - t.off]
            ELSE h[t.arr][j]]]

RECURSIVE Sum(_, _)
Sum(f, n) == IF n = 0 THEN 0 ELSE f[n - 1] + Sum(f, n - 1)

Last(shape) == shape[Len(shape)]

\* Reshape: the element count must stay; only the shape changes.
Reshape(m, t, newShape) ==
    IF m.fault # "none" THEN m
    ELSE IF calculateSize(newShape) # m.ts[t].length THEN Abort(m)
    ELSE [m EXCEPT !.ts[t].shape = newShape]

\* Tensor.Slice as a new tensor object out.
SliceTo(m, out, t, offset, shape) ==
    IF m.fault # "none" THEN m
    ELSE LET v == Slice(m.h, m.ts[t], offset, shape)
         IN  IF ~v.held THEN Abort(m)
             ELSE [m EXCEPT !.ts = Put(m.ts, out, v)]

\* Gather: row i of the output is copied from the input's data at
\* [idx*cols, (idx+1)*cols); the only bounds are those of the two slice
\* expressions.
Gather(m, out, input, indices) ==
    IF m.fault # "none" THEN m
    ELSE LET x == m.ts[input]
             ix == m.ts[indices]
         IN  IF Len(x.shape) # 2 \/ Len(ix.shape) # 1 THEN Abort(m)
             ELSE
             LET n == U32(ix.len)
                 cols == x.shape[2]
                 shape == <<n, cols>>
                 size == calculateSize(shape)
                 idx(i) == Data(m.h, ix, i)
                 srcLo(i) == U32(idx(i) * cols)
                 srcHi(i) == U32((idx(i) + 1) * cols)
                 dstLo(i) == U32(i * cols)
                 dstHi(i) == U32((i + 1) * cols)
                 bad(i) == \/ dstLo(i) > dstHi(i) \/ dstHi(i) > size
                           \/ srcLo(i) > srcHi(i) \/ srcHi(i) > Cap(m.h, x)
             IN  IF \E i \in 0 .. n - 1 : bad(i) THEN Abort(m)
                 ELSE Alloc(m, out,
                            [j \in 0 .. size - 1 |->
                                Data(m.h, x, srcLo(j \div cols) + (j % cols))],
                            shape, size)

\* The residue standing for w * x / sqrt(mean(x^2) + eps).
NormMix(w, x, sumSq) == V(w * x + sumSq)

RMSNorm(m, out, xn, wn) ==
    IF m.fault # "none" THEN m
    ELSE LET x == m.ts[xn]
             w == m.ts[wn]
         IN  IF Len(x.shape) < 1 \/ Len(w.shape) # 1 THEN Abort(m)
             ELSE IF Last(x.shape) # w.shape[1] THEN Abort(m)
             ELSE IF Last(x.shape) = 0 THEN Abort(m)
             ELSE
             LET d == Last(x.shape)
                 batch == x.length \div d
                 size == calculateSize(x.shape)
                 sq == [b \in 0 .. batch - 1 |->
                          Sum([i \in 0 .. d - 1 |->
                                  Data(m.h, x, b * d + i)
                                    * Data(m.h, x, b * d + i)], d)]
             IN  Alloc(m, out,
                       [j \in 0 .. size - 1 |->
                           IF j < batch * d
                           THEN NormMix(Data(m.h, w, j % d),
                                        Data(m.h, x, j), sq[j \div d])
                           ELSE 0],
                       x.shape, size)

\* Add: ApplyOp(OpAdd, x, y), a new tensor of x's shape.
Add(m, out, xn, yn) ==
    IF m.fault # "none" THEN m
    ELSE LET x == m.ts[xn]
             y == m.ts[yn]
         IN  IF x.length # y.length THEN Abort(m)
             ELSE LET size == calculateSize(x.shape)
                  IN  Alloc(m, out,
                            [j \in 0 .. size - 1 |->
                                IF j < x.len
                                THEN V(Data(m.h, x, j) + Data(m.h, y, j))
                                ELSE 0],
                            x.shape, size)

\* The residue standing for y * x * sigmoid(x).
GateMix(y, x) == V(y * x * (x + 1))

\* SwiGLu(y, x): y is rewritten in place.
SwiGLu(m, yn, xn) ==
    IF m.fault # "none" THEN m
    ELSE LET y == m.ts[yn]
             x == m.ts[xn]
         IN  IF y.length # x.length THEN Abort(m)
             ELSE [m EXCEPT !.h =
                     Rewrite(m.h, y,
                             [j \in 0 .. y.len - 1 |->
                                 GateMix(Data(m.h, y, j),
                                         Data(m.h, x, j))])]

\* MatMulTransB: a[.., K] times the transpose of b[N, K].
MatMulTransB(m, out, an, bn) ==
    IF m.fault # "none" THEN m
    ELSE LET a == m.ts[an]
             b == m.ts[bn]
         IN  IF Len(a.shape) < 2 \/ Len(b.shape) # 2 THEN Abort(m)
             ELSE IF Last(a.shape) # b.shape[2] THEN Abort(m)
             ELSE IF Last(a.shape) = 0 THEN Abort(m)
             ELSE
             LET k == Last(a.shape)
                 na == a.length \div k
                 nb == b.length \div b.shape[2]
                 size == U32(na * nb)
                 shape == SubSeq(a.shape, 1, Len(a.shape) - 1) \o <<nb>>
                 dot(i, j) == Sum([c \in 0 .. k - 1 |->
                                     Data(m.h, a, i * k + c)
                                       * Data(m.h, b, j * k + c)], k)
             IN  IF size # calculateSize(shape) THEN Abort(m)
                 ELSE Alloc(m, out,
                            [e \in 0 .. size - 1 |->
                                V(dot(e \div nb, e % nb))],
                            shape, size)

\* Neg: x is negated in place.
Neg(m, xn) ==
    IF m.fault # "none" THEN m
    ELSE LET x == m.ts[xn]
         IN  [m EXCEPT !.h =
                 Rewrite(m.h, x,
                         [j \in 0 .. x.len - 1 |-> V(0 - Data(m.h, x, j))])]

\* The residues standing for the sine and the cosine of the angle of
\* position pos and pair i; at position 0 they are 0 and 1.
RopeSin(pos, i) == V(pos * (i + 1))
RopeCos(pos, i) == V(1 + pos)

\* Rope: the pairs (i, d/2 + i) of every head of every token are rotated
\* in place, token tok at position startPos + tok.
Rope(m, yn, startPos) ==
    IF m.fault # "none" THEN m
    ELSE LET y == m.ts[yn]
         IN  IF Len(y.shape) # 3 THEN Abort(m)
             ELSE IF y.shape[3] % 2 # 0 THEN Abort(m)
             ELSE
             LET nHeads == y.shape[2]
                 d == y.shape[3]
                 half == d \div 2
                 covered == y.shape[1] * nHeads * d
                 rot(p) ==
                     LET e == p % d
                         i == e % half
                         pos == U32(startPos + (p \div (nHeads * d)))
                         a == Data(m.h, y, p - e + i)
                         b == Data(m.h, y, p - e + half + i)
                     IN  IF e < half
                         THEN V(a * RopeCos(pos, i) - b * RopeSin(pos, i))
                         ELSE V(a * RopeSin(pos, i) + b * RopeCos(pos, i))
             IN  [m EXCEPT !.h =
                     Rewrite(m.h, y,
                             [p \in 0 .. y.len - 1 |->
                                 IF p < covered THEN rot(p)
                                 ELSE Data(m.h, y, p)])]

\* GroupAttnQK: attn[h][i][j] = sum over d of q[i][h][d] * k[j][h'][d],
\* h' = h / (hq / hk); the scale factor is the residue 1.
GroupAttnQK(m, out, qn, kn) ==
    IF m.fault # "none" THEN m
    ELSE LET q == m.ts[qn]
             k == m.ts[kn]
         IN  IF Len(q.shape) # 3 \/ Len(k.shape) # 3 THEN Fail(m)
             ELSE IF q.shape[3] # k.shape[3] THEN Fail(m)
             ELSE IF k.shape[2] = 0 THEN Abort(m)
             ELSE IF q.shape[2] % k.shape[2] # 0 THEN Fail(m)
             ELSE
             LET n1 == q.shape[1]
                 hq == q.shape[2]
                 dq == q.shape[3]
                 n2 == k.shape[1]
                 hk == k.shape[2]
                 grp == hq \div hk
                 shape == <<hq, n1, n2>>
                 size == calculateSize(shape)
                 \* the loops index attn, q and k over the whole of their
                 \* shapes: an index beyond the data is a run-time panic
                 touched == hq * n1 * n2
                 beyond == touched > 0 /\
                             \/ touched > size
                             \/ dq > 0 /\ (n1 * hq * dq > q.len
                                            \/ n2 * hk * dq > k.len)
                 dot(h, i, j) ==
                     Sum([d \in 0 .. dq - 1 |->
                            Data(m.h, q, i * hq * dq + h * dq + d)
                              * Data(m.h, k,
                                     j * hk * dq + (h \div grp) * dq + d)],
                         dq)
             IN  IF beyond THEN Abort(m)
                 ELSE Alloc(m, out,
                       [e \in 0 .. size - 1 |->
                           V(dot(e \div (n1 * n2), (e \div n2) % n1, e % n2))],
                       shape, size)

Max(S) == CHOOSE x \in S : \A y \in S : y <= x

\* The residues standing for exp(x - maxVal) and for expVal / sumExp.
ExpMix(x, maxVal) == ValMod + x - maxVal
DivMix(expVal, sumExp) == V(expVal * (sumExp + 1))

\* The first masked column of row i; a variant that forgets the rows
\* already in the cache.
Boundary_IgnoresPast(seqLen, totalSeqLen, i) == U32(i + 1)
Boundary(seqLen, totalSeqLen, i) == U32(totalSeqLen - seqLen + i + 1)

\* The test that rejects a matrix with more rows than columns; a variant
\* that lets one more row through.
SeqLenTooLong_OffByOne(seqLen, totalSeqLen) == seqLen > totalSeqLen + 1
SeqLenTooLong(seqLen, totalSeqLen) == seqLen > totalSeqLen

\* MaskedSoftmax: in place; row i of each [seqLen, totalSeqLen] matrix is
\* normalised over its first totalSeqLen - seqLen + i + 1 entries and
\* zeroed after them.
MaskedSoftmax(m, yn) ==
    IF m.fault # "none" THEN m
    ELSE LET y == m.ts[yn]
         IN  IF Len(y.shape) < 2 THEN Abort(m)
             ELSE
             LET seqLen == y.shape[Len(y.shape) - 1]
                 totalSeqLen == Last(y.shape)
             IN  IF SeqLenTooLong(seqLen, totalSeqLen) THEN Abort(m)
                 ELSE IF U32(seqLen * totalSeqLen) = 0 THEN Abort(m)
                 ELSE
                 LET batch == y.length \div U32(seqLen * totalSeqLen)
                     covered == batch * seqLen * totalSeqLen
                     boundary(r) ==
                         Boundary(seqLen, totalSeqLen, r % seqLen)
                     \* per row: maxVal and sumExp
                     rows ==
                         [r \in 0 .. batch * seqLen - 1 |->
                             LET offset == r * totalSeqLen
                                 maxVal ==
                                     Max({Data(m.h, y, offset)} \cup
                                         {Data(m.h, y, offset + j) :
                                             j \in 0 .. boundary(r) - 1})
                             IN  [maxVal |-> maxVal,
                                  sumExp |->
                                      Sum([j \in 0 .. boundary(r) - 1 |->
                                              ExpMix(Data(m.h, y, offset + j),
                                                     maxVal)],
                                          boundary(r))]]
                 IN  [m EXCEPT !.h =
                         Rewrite(m.h, y,
                                 [p \in 0 .. y.len - 1 |->
                                     IF p >= covered THEN Data(m.h, y, p)
                                     ELSE IF p % totalSeqLen
                                               < boundary(p \div totalSeqLen)
                                     THEN DivMix(
                                            ExpMix(Data(m.h, y, p),
                                                   rows[p \div totalSeqLen]
                                                       .maxVal),
                                            rows[p \div totalSeqLen].sumExp)
                                     ELSE 0])]

GroupAttnScore(m, out, qn, kn) ==
    MaskedSoftmax(GroupAttnQK(m, out, qn, kn), out)

\* GroupAttnV: result[i][h][d] = sum over j of attn[h][i][j] * v[j][h'][d].
GroupAttnV(m, out, an, vn) ==
    IF m.fault # "none" THEN m
    ELSE LET attn == m.ts[an]
             v == m.ts[vn]
         IN  IF Len(attn.shape) # 3 \/ Len(v.shape) # 3 THEN Fail(m)
             ELSE IF v.shape[2] = 0 THEN Abort(m)
             ELSE IF attn.shape[3] # v.shape[1] THEN Fail(m)
             ELSE IF attn.shape[1] % v.shape[2] # 0 THEN Fail(m)
             ELSE
             LET h == attn.shape[1]
                 n1 == attn.shape[2]
                 n2 == attn.shape[3]
                 hPrime == v.shape[2]
                 d == v.shape[3]
                 grp == h \div hPrime
                 shape == <<n1, h, d>>
                 size == calculateSize(shape)
                 touched == n1 * h * d
                 beyond == touched > 0 /\
                             \/ touched > size
                             \/ n2 > 0 /\ (h * n1 * n2 > attn.len
                                            \/ n2 * hPrime * d > v.len)
                 dot(i, hIdx, dIdx) ==
                     Sum([j \in 0 .. n2 - 1 |->
                            Data(m.h, attn, hIdx * n1 * n2 + i * n2 + j)
                              * Data(m.h, v,
                                     j * hPrime * d + (hIdx \div grp) * d
                                       + dIdx)],
                         n2)
             IN  IF beyond THEN Abort(m)
                 ELSE Alloc(m, out,
                       [e \in 0 .. size - 1 |->
                           V(dot(e \div (h * d), (e \div d) % h, e % d))],
                       shape, size)

\* ------------------------------------------------------- model/model.go
\* The number of decode iterations of Generate.
n == 50

MaxHeads == 2
MaxSeed == 1

\* Parameter tensors, by the field of LlamaParams that holds them.  The
\* embedding table and the LM head are one tensor.
LMHead == <<"LMHead", 0>>
EmbeddingTable == LMHead
RMSOutW == <<"RMSOutW", 0>>
RMSAttW(i) == <<"RMSAttW", i>>
WQ(i) == <<"WQ", i>>
WK(i) == <<"WK", i>>
WV(i) == <<"WV", i>>
WO(i) == <<"WO", i>>
RMSFfnW(i) == <<"RMSFfnW", i>>
WUp(i) == <<"WUp", i>>
WGate(i) == <<"WGate", i>>
WDown(i) == <<"WDown", i>>

LayerParams(i) ==
    {RMSAttW(i), WQ(i), WK(i), WV(i), WO(i), RMSFfnW(i), WUp(i), WGate(i),
     WDown(i)}

WeightIds(c) ==
    {LMHead, RMSOutW} \cup UNION {LayerParams(i) : i \in 0 .. c.NLayers - 1}

\* The shapes of the parameter tensors of a model of configuration c.
ParamShape(c, id) ==
    CASE id = LMHead -> <<c.Vocab, c.D>>
      [] id[1] \in {"RMSOutW", "RMSAttW", "RMSFfnW"} -> <<c.D>>
      [] id[1] = "WQ" -> <<c.NQH * c.DQKV, c.D>>
      [] id[1] \in {"WK", "WV"} -> <<c.NKVH * c.DQKV, c.D>>
      [] id[1] = "WO" -> <<c.D, c.NQH * c.DQKV>>
      [] id[1] \in {"WUp", "WGate"} -> <<c.Di, c.D>>
      [] id[1] = "WDown" -> <<c.D, c.Di>>

ParamNames ==
    <<"LMHead", "RMSOutW", "RMSAttW", "WQ", "WK", "WV", "WO", "RMSFfnW",
      "WUp", "WGate", "WDown">>

\* The contents of the checkpoint: element j of parameter id, for a
\* checkpoint numbered seed.
ParamAt(seed, id, j) ==
    LET salt == CHOOSE x \in DOMAIN ParamNames : ParamNames[x] = id[1]
    IN  V(salt * (seed + 1) + id[2] + j * (j + seed) + 1)

ParamsFromSafeTensors(c, seed) ==
    [h |-> [id \in WeightIds(c) |->
              [j \in 0 .. calculateSize(ParamShape(c, id)) - 1 |->
                  ParamAt(seed, id, j)]],
     ts |-> [id \in WeightIds(c) |->
              EmptyTensor(id, ParamShape(c, id))]]

NoCfg == [status |-> "none"]
NoGen == [pc |-> "idle"]
\* The locals of Forward; copied counts the layers whose new rows the call
\* has copied into the cache.
NoFwd == [seqLen |-> 0, pastSeqLen |-> 0, totalSeqLen |-> 0, i |-> 0,
          incErr |-> FALSE, copied |-> 0]

\* FromSafeTensors: the two divisibility checks on the configuration,
\* DQKV = D / NQH, then the parameters.
LoadConfig(config) ==
    IF config.NKVH = 0 THEN [status |-> "panic"]
    ELSE IF config.NQH % config.NKVH # 0 THEN [status |-> "err"]
    ELSE IF config.NQH = 0 THEN [status |-> "panic"]
    ELSE IF config.D % config.NQH # 0 THEN [status |-> "err"]
    ELSE [status |-> "ok", Vocab |-> config.Vocab,
          NLayers |-> config.NLayers, NQH |-> config.NQH,
          NKVH |-> config.NKVH, D |-> config.D, Di |-> config.Di,
          DQKV |-> config.D \div config.NQH,
          MaxSeqLen |-> config.MaxSeqLen,
          EosTokenID |-> config.EosTokenID]

FromSafeTensors(config, seed) ==
    /\ cfg = NoCfg
    /\ ~kc.created
    /\ ret = NoRet
    /\ cfg' = LoadConfig(config)
    /\ IF cfg'.status = "ok"
       THEN /\ heap' = ParamsFromSafeTensors(cfg', seed).h
            /\ tens' = ParamsFromSafeTensors(cfg', seed).ts
       ELSE UNCHANGED <<heap, tens>>
    /\ UNCHANGED <<kc, gen, fwd>>

\* Tensors local to Forward and FFN, by the variable that holds them.
Input == <<"input", 0>>
Residual == <<"residual", 0>>
Hidden == <<"hidden", 0>>
Q == <<"q", 0>>
K == <<"k_", 0>>
Vt == <<"v_", 0>>
FullK == <<"fullK", 0>>
FullV == <<"fullV", 0>>
Score == <<"score", 0>>
AttnV == <<"attnV", 0>>
Out == <<"out", 0>>
Gate == <<"gate", 0>>
Up == <<"up", 0>>
Output == <<"output", 0>>
LastRow == <<"last", 0>>
FinalNorm == <<"final_norm", 0>>
Logits == <<"logits", 0>>

Frame == [h |-> heap, ts |-> tens, fault |-> "none"]

Restrict(f, S) == [k \in DOMAIN f \cap S |-> f[k]]

CacheArrs == {KArr(l) : l \in 0 .. MaxLayers + 1}
               \cup {VArr(l) : l \in 0 .. MaxLayers + 1}

\* What outlives a step: the parameters, the cache, and the tensors the
\* caller still refers to.
Keep(m, live) ==
    /\ heap' = Restrict(m.h, WeightIds(cfg) \cup CacheArrs \cup live)
    /\ tens' = Restrict(m.ts, WeightIds(cfg) \cup live)

\* panic(err): an error returned to Forward aborts the call.
Raise(m) == IF m.fault = "err" THEN Abort(m) ELSE m

\* tensor.NewTensor(tokens, []uint32{uint32(len(tokens))})
NewInput(m, tokens) ==
    LET shape == <<U32(Len(tokens))>>
    IN  IF Len(tokens) # calculateSize(shape) THEN Abort(m)
        ELSE Alloc(m, Input, [j \in 0 .. Len(tokens) - 1 |-> tokens[j + 1]],
                   shape, calculateSize(shape))

\* cache.KCache(i, 0) / cache.VCache(i, 0) as the tensor object out.
CacheTo(m, out, arr, layer) ==
    IF m.fault # "none" THEN m
    ELSE IF CacheViewErr(kc, layer, 0) # "none" THEN Fail(m)
    ELSE LET v == CacheView(m.h, kc, arr, 0)
         IN  IF ~v.held THEN Abort(m)
             ELSE [m EXCEPT !.ts = Put(m.ts, out, v)]

\* A copy that lands at the start of the destination instead of at lo.
CopyInto_AtStart(m, dstn, lo, hi, srcn) ==
    IF m.fault # "none" THEN m
    ELSE LET dst == m.ts[dstn]
             src == m.ts[srcn]
         IN  IF lo > hi \/ hi > Cap(m.h, dst) THEN Abort(m)
             ELSE
             LET cnt == IF hi - lo < src.len THEN hi - lo ELSE src.len
             IN  [m EXCEPT !.h[dst.arr] =
                     [j \in DOMAIN m.h[dst.arr] |->
                         IF j >= dst.off /\ j < dst.off + cnt
                         THEN Data(m.h, src, j - dst.off)
                         ELSE m.h[dst.arr][j]]]

\* copy(dst.Data()[lo:hi], src.Data()): the slice expression needs
\* lo <= hi <= cap(dst.Data()); copy moves min(hi - lo, len(src)) elements.
CopyInto(m, dstn, lo, hi, srcn) ==
    IF m.fault # "none" THEN m
    ELSE LET dst == m.ts[dstn]
             src == m.ts[srcn]
         IN  IF lo > hi \/ hi > Cap(m.h, dst) THEN Abort(m)
             ELSE
             LET cnt == IF hi - lo < src.len THEN hi - lo ELSE src.len
             IN  [m EXCEPT !.h[dst.arr] =
                     [j \in DOMAIN m.h[dst.arr] |->
                         IF j >= dst.off + lo /\ j < dst.off + lo + cnt
                         THEN Data(m.h, src, j - dst.off - lo)
                         ELSE m.h[dst.arr][j]]]

\* An FFN that negates the gate projection weight in place.
FFN_NegatesGate(m, out, residual, wUp, wDown, wGate, rmsW) ==
    LET m1 == RMSNorm(m, Hidden, residual, rmsW)
        m2 == MatMulTransB(Neg(m1, wGate), Gate, Hidden, wGate)
        m3 == MatMulTransB(m2, Up, Hidden, wUp)
        m4 == SwiGLu(m3, Up, Gate)
        m5 == MatMulTransB(m4, Output, Up, wDown)
    IN  Add(m5, out, residual, Output)

FFN(m, out, residual, wUp, wDown, wGate, rmsW) ==
    LET m1 == RMSNorm(m, Hidden, residual, rmsW)
        m2 == MatMulTransB(m1, Gate, Hidden, wGate)
        m3 == MatMulTransB(m2, Up, Hidden, wUp)
        m4 == SwiGLu(m3, Up, Gate)
        m5 == MatMulTransB(m4, Output, Up, wDown)
    IN  Add(m5, out, residual, Output)

\* Feeding the whole sequence again instead of the chosen token.
NextTokens_WholeSequence(finalSeq, maxIdx) == Append(finalSeq, maxIdx)

\* tokens = []uint32{maxIdx}
NextTokens(finalSeq, maxIdx) == <<maxIdx>>

\* A choice among the first top_k logits only; all of them for top_k = 0.
ArgMax_WithinTopK(h, logits) ==
    LET last == IF ret.top_k = 0 \/ ret.top_k > logits.length
                THEN logits.length - 1 ELSE ret.top_k - 1
    IN  CHOOSE a \in 0 .. last :
            \A b \in 0 .. last :
                /\ Data(h, logits, b) <= Data(h, logits, a)
                /\ b < a => Data(h, logits, b) < Data(h, logits, a)

\* A scan that also moves on an equal logit.
RECURSIVE ArgMaxScan_OnEqual(_, _, _, _)
ArgMaxScan_OnEqual(h, logits, i, maxIdx) ==
    IF ~(i < Size(logits)) THEN maxIdx
    ELSE ArgMaxScan_OnEqual(h, logits, i + 1,
                            IF Data(h, logits, i) >= Data(h, logits, maxIdx)
                            THEN i ELSE maxIdx)

\* The loop over the logits from index i on: maxIdx moves to i when
\* logits.Data()[i] > maxProb, the logit at maxIdx.
RECURSIVE ArgMaxScan(_, _, _, _)
ArgMaxScan(h, logits, i, maxIdx) ==
    IF ~(i < Size(logits)) THEN maxIdx
    ELSE ArgMaxScan(h, logits, i + 1,
                    IF Data(h, logits, i) > Data(h, logits, maxIdx)
                    THEN i ELSE maxIdx)

\* The greedy choice: maxIdx starts at 0 and the scan at 1.
ArgMax(h, logits) == ArgMaxScan(h, logits, 1, 0)

\* Generate up to the loop: the cache is created empty; maxLen, top_p,
\* top_k and temperature are not read.
Generate(tokens, maxLen) ==
    /\ cfg.status = "ok"
    /\ gen.pc = "idle"
    /\ LET nLayers == U32(cfg.NLayers)
           maxSeqLen == U32(cfg.MaxSeqLen)
           dim == U32(cfg.DQKV * cfg.NKVH)
       IN  IF NewKVCacheOk(nLayers, maxSeqLen, dim, 0)
           THEN /\ kc' = NewKVCacheObj(nLayers, maxSeqLen, dim, 0)
                /\ heap' = [id \in DOMAIN heap \cup
                                   DOMAIN NewKVCacheHeap(nLayers, maxSeqLen,
                                                         dim) |->
                              IF id \in DOMAIN heap THEN heap[id]
                              ELSE NewKVCacheHeap(nLayers, maxSeqLen,
                                                  dim)[id]]
                /\ gen' = [pc |-> "loop", prompt |-> tokens,
                           maxLen |-> maxLen, tokens |-> tokens,
                           finalSeq |-> tokens, i |-> 0, err |-> "none"]
           ELSE /\ gen' = [pc |-> "returned", prompt |-> tokens,
                           maxLen |-> maxLen, tokens |-> tokens,
                           finalSeq |-> << >>, i |-> 0,
                           err |-> "failed to create cache"]
                /\ UNCHANGED <<kc, heap>>
    /\ UNCHANGED <<cfg, tens, fwd>>

\* A fault ends the process; otherwise control moves on to pc.
Continue(m, pc, live) ==
    IF m.fault # "none"
    THEN gen' = [gen EXCEPT !.pc = "panicked"] /\ Keep(m, {})
    ELSE gen' = [gen EXCEPT !.pc = pc] /\ Keep(m, live)

\* The loop test, the input tensor, and Forward up to the layer loop:
\* Increment's result is dropped.
ForwardEnter ==
    /\ gen.pc = "loop"
    /\ gen.i < n
    /\ LET m0 == NewInput(Frame, gen.tokens)
           seqLen == IF m0.fault = "none" THEN Size(m0.ts[Input]) ELSE 0
           pastSeqLen == Length(kc)
           m1 == Gather(m0, Residual, EmbeddingTable, Input)
       IN  /\ kc' = IF IncrementFails(kc, seqLen) THEN kc
                    ELSE [kc EXCEPT !.length = IncrementLen(kc, seqLen)]
           /\ fwd' = [seqLen |-> seqLen, pastSeqLen |-> pastSeqLen,
                      totalSeqLen |-> U32(seqLen + pastSeqLen), i |-> 0,
                      incErr |-> IncrementFails(kc, seqLen), copied |-> 0]
           /\ Continue(m1, "layers", {Residual})
    /\ UNCHANGED cfg

\* One iteration of the layer loop.
ForwardLayer ==
    /\ gen.pc = "layers"
    /\ fwd.i < cfg.NLayers
    /\ LET i == fwd.i
           seqLen == fwd.seqLen
           pastSeqLen == fwd.pastSeqLen
           totalSeqLen == fwd.totalSeqLen
           qShape == <<seqLen, U32(cfg.NQH), U32(cfg.DQKV)>>
           kShape == <<seqLen, U32(cfg.NKVH), U32(cfg.DQKV)>>
           fullShape == <<totalSeqLen, U32(cfg.NKVH), U32(cfg.DQKV)>>
           lo == pastSeqLen * cfg.NKVH * cfg.DQKV
           hi == totalSeqLen * cfg.NKVH * cfg.DQKV
           m1 == RMSNorm(Frame, Hidden, Residual, RMSAttW(i))
           m2 == MatMulTransB(m1, Q, Hidden, WQ(i))
           m3 == MatMulTransB(m2, K, Hidden, WK(i))
           m4 == MatMulTransB(m3, Vt, Hidden, WV(i))
           m5 == Rope(Reshape(m4, Q, qShape), Q, pastSeqLen)
           m6 == Rope(Reshape(m5, K, kShape), K, pastSeqLen)
           m7 == Reshape(m6, Vt, kShape)
           m8 == Raise(CacheTo(m7, FullK, KArr(i), U32(i)))
           m9 == Raise(CacheTo(m8, FullV, VArr(i), U32(i)))
           m10 == CopyInto(m9, FullK, lo, hi, K)
           m11 == CopyInto(m10, FullV, lo, hi, Vt)
           m12 == Reshape(m11, FullK, fullShape)
           m13 == Reshape(m12, FullV, fullShape)
           m14 == Raise(GroupAttnScore(m13, Score, Q, FullK))
           m15 == Raise(GroupAttnV(m14, AttnV, Score, FullV))
           m16 == Reshape(m15, AttnV, <<seqLen, U32(cfg.NQH * cfg.DQKV)>>)
           m17 == MatMulTransB(m16, Out, AttnV, WO(i))
           m18 == Add(m17, Residual, Residual, Out)
           m19 == FFN(m18, Residual, Residual, WUp(i), WDown(i), WGate(i),
                      RMSFfnW(i))
       IN  /\ fwd' = [fwd EXCEPT !.i = i + 1,
                                  !.copied = IF m11.fault = "none"
                                             THEN i + 1 ELSE i]
           /\ Continue(m19, "layers", {Residual})
    /\ UNCHANGED <<cfg, kc>>

\* Forward after the layer loop: the last row, the final norm, the logits.
ForwardLogits ==
    /\ gen.pc = "layers"
    /\ ~(fwd.i < cfg.NLayers)
    /\ LET m1 == SliceTo(Frame, LastRow, Residual,
                         U32((fwd.seqLen - 1) * U32(cfg.D)),
                         <<1, U32(cfg.D)>>)
           m2 == RMSNorm(m1, FinalNorm, LastRow, RMSOutW)
           m3 == MatMulTransB(m2, Logits, FinalNorm, LMHead)
           m4 == IF m3.fault = "none"
                    /\ Size(m3.ts[Logits]) # U32(cfg.Vocab)
                 THEN Abort(m3) ELSE m3
       IN  Continue(m4, "pick", {Logits})
    /\ UNCHANGED <<cfg, kc, fwd>>

\* The rest of the loop body: the greedy choice and the two appends.
GenerateNext ==
    /\ gen.pc = "pick"
    /\ IF tens[Logits].len = 0
       THEN gen' = [gen EXCEPT !.pc = "panicked"]
       ELSE LET maxIdx == ArgMax(heap, tens[Logits])
            IN  gen' = [gen EXCEPT !.pc = "loop",
                                   !.tokens = NextTokens(gen.finalSeq, maxIdx),
                                   !.finalSeq = Append(@, maxIdx),
                                   !.i = @ + 1]
    /\ UNCHANGED <<cfg, kc, heap, tens, fwd>>

\* The loop is over: finalSeq and a nil error.
GenerateReturn ==
    /\ gen.pc = "loop"
    /\ ~(gen.i < n)
    /\ gen' = [gen EXCEPT !.pc = "returned"]
    /\ UNCHANGED <<cfg, kc, heap, tens, fwd>>

Vocab == 2
GenConfigs ==
    {[Vocab |-> Vocab, NLayers |-> nl, NQH |-> nq, NKVH |-> 1,
      D |-> 2 * nq, Di |-> 1, MaxSeqLen |-> ms, EosTokenID |-> 1] :
        nl \in 1 .. MaxLayers, nq \in 1 .. MaxHeads,
        ms \in {MaxRows, n + 1}}

\* Prompts: empty, within the vocabulary, and with a token outside it.
Prompts ==
    {<< >>, <<0>>, <<1, 0>>, <<0, 1, 1>>, <<Vocab>>, <<1, Vocab>>}

MaxLenArgs == {2}

Others == UNCHANGED <<views, ret, nWrites, nOps, parked, tn>>

NextGen ==
    \/ \E c \in GenConfigs, seed \in 0 .. MaxSeed :
          FromSafeTensors(c, seed) /\ Others
    \/ \E p \in Prompts, maxLen \in MaxLenArgs : Generate(p, maxLen) /\ Others
    \/ ForwardEnter /\ Others
    \/ ForwardLayer /\ Others
    \/ ForwardLogits /\ Others
    \/ GenerateNext /\ Others
    \/ GenerateReturn /\ Others

SpecGen == Init /\ [][NextGen]_vars

\* A call that has started runs on: each statement of Generate and Forward
\* is followed by the next one.  ForwardPending is the position at which
\* one of Forward's three steps is enabled; their weak fairness is written
\* with it in the place of ENABLED.
ForwardStep ==
    /\ \/ ForwardEnter
       \/ ForwardLayer
       \/ ForwardLogits
    /\ Others

LoopStep ==
    /\ \/ GenerateNext
       \/ GenerateReturn
    /\ Others

ForwardPending == gen.pc = "layers" \/ (gen.pc = "loop" /\ gen.i < n)

SpecGenFair ==
    /\ SpecGen
    /\ WF_vars(LoopStep)
    /\ []<>(~ForwardPending) \/ []<><<ForwardStep>>_vars

\* --------------------------------------------- two Generate calls at once
\* Two goroutines call Generate on one loaded model.  One call runs at a
\* time; parked holds what the waiting call alone refers to: its locals,
\* its cache object and buffers, and its intermediate tensors.  The model's
\* parameters are reached from both calls and stay in heap and tens.
Shared(f) == Restrict(f, WeightIds(cfg))
Private_SharedCache(f) ==
    Restrict(f, DOMAIN f \ (WeightIds(cfg) \cup CacheArrs))
Private(f) == Restrict(f, DOMAIN f \ WeightIds(cfg))

NoCall ==
    [gen |-> NoGen, fwd |-> NoFwd, kc |-> NoCache, heap |-> << >>,
     tens |-> << >>]

\* The scheduler takes the running call off and puts the waiting one on.
\* A panic has ended the process: nothing runs after it.
Switch ==
    /\ cfg.status = "ok"
    /\ gen.pc # "panicked"
    /\ parked' = [gen |-> gen, fwd |-> fwd, kc |-> kc,
                 heap |-> Private(heap), tens |-> Private(tens)]
    /\ gen' = parked.gen
    /\ fwd' = parked.fwd
    /\ kc' = parked.kc
    /\ heap' = [id \in DOMAIN parked.heap \cup (DOMAIN heap \ DOMAIN Private(heap)) |->
                  IF id \in DOMAIN parked.heap THEN parked.heap[id]
                  ELSE heap[id]]
    /\ tens' = [id \in DOMAIN parked.tens \cup (DOMAIN tens \ DOMAIN Private(tens)) |->
                  IF id \in DOMAIN parked.tens THEN parked.tens[id]
                  ELSE tens[id]]
    /\ UNCHANGED <<cfg, views, ret, nWrites, nOps, tn>>

TwoConfigs ==
    {[Vocab |-> Vocab, NLayers |-> 1, NQH |-> 1, NKVH |-> 1, D |-> 2,
      Di |-> 1, MaxSeqLen |-> ms, EosTokenID |-> 1] :
        ms \in {MaxRows, n + 1}}

\* A prompt within the vocabulary and one with a token outside it.
TwoPrompts == {<<0>>, <<Vocab>>}

NextTwo ==
    \/ \E c \in TwoConfigs :
          FromSafeTensors(c, MaxSeed) /\ Others
    \/ \E p \in TwoPrompts, maxLen \in MaxLenArgs :
          Generate(p, maxLen) /\ Others
    \/ ForwardEnter /\ Others
    \/ ForwardLayer /\ Others
    \/ ForwardLogits /\ Others
    \/ GenerateNext /\ Others
    \/ GenerateReturn /\ Others
    \/ Switch

SpecTwo == Init /\ [][NextTwo]_vars

\* ------------------------------------------ Generate, twice, in sequence
\* The arguments after the prompt: maxLen, and top_p and temperature in
\* tenths, top_k.  The first is the call of main.go.
ArgSets ==
    {[op |-> "Generate", maxLen |-> 300, top_p |-> 9, top_k |-> 40,
      temperature |-> 6],
     [op |-> "Generate", maxLen |-> 1, top_p |-> 0, top_k |-> 1,
      temperature |-> 0],
     [op |-> "Generate", maxLen |-> 2, top_p |-> 10, top_k |-> 0,
      temperature |-> 10]}

\* Generate, with the arguments of the call kept in ret.
GenerateArgs(tokens, args) ==
    /\ Generate(tokens, args.maxLen)
    /\ ret' = args
    /\ UNCHANGED <<views, nWrites, nOps, parked, tn>>

\* The call is over, by a return or by a panic; its locals, its result
\* and its arguments are set aside and the caller is ready to call
\* Generate on the same model once more.
CallAgain ==
    /\ cfg.status = "ok"
    /\ gen.pc \in {"returned", "panicked"}
    /\ parked = NoCall
    /\ parked' = [gen |-> gen, fwd |-> fwd, kc |-> kc,
                  heap |-> Private(heap), tens |-> Private(tens),
                  args |-> ret]
    /\ gen' = NoGen
    /\ fwd' = NoFwd
    /\ kc' = NoCache
    /\ heap' = Shared(heap)
    /\ tens' = Shared(tens)
    /\ ret' = NoRet
    /\ UNCHANGED <<cfg, views, nWrites, nOps, tn>>

ArgPrompts == {<<0>>, <<1, 0>>, <<Vocab>>}

NextArgs ==
    \/ \E c \in TwoConfigs, seed \in 0 .. MaxSeed :
          FromSafeTensors(c, seed) /\ Others
    \/ \E p \in ArgPrompts, args \in ArgSets : GenerateArgs(p, args)
    \/ ForwardEnter /\ Others
    \/ ForwardLayer /\ Others
    \/ ForwardLogits /\ Others
    \/ GenerateNext /\ Others
    \/ GenerateReturn /\ Others
    \/ CallAgain

SpecArgs == Init /\ [][NextArgs]_vars

\* ------------------------------------------------------ calling kernels
\* A test of a kernel: the operands are built, then the kernel is called
\* on them.  OpBuf is the array behind operand OpA when that operand is a
\* view.
OpA == <<"a", 0>>
OpB == <<"b", 0>>
OpC == <<"c", 0>>
OpBuf == <<"buf", 0>>

Outcome(m) == IF m.fault = "none" THEN "ok" ELSE m.fault

\* The data of a test operand: element j holds j + 1.
Counting(len) == [j \in 0 .. len - 1 |-> j + 1]

\* Gather's operands.  The input is a tensor built by NewTensor or a
\* Slice of one; the indices are a tensor built by NewTensor.
GatherShapes ==
    {<<r, c>> : r \in 0 .. MaxRows + 1, c \in 0 .. MaxDim}
      \cup {<<1, Half>>, <<MaxDim>>, <<1, MaxDim, 1>>}

GatherViews(shape) ==
    IF Len(shape) # 2 THEN {}
    ELSE {[offset |-> o * shape[2], shape |-> <<r, shape[2]>>] :
            o \in 0 .. shape[1], r \in 0 .. shape[1]}

GatherIndexLists ==
    UNION {[1 .. k -> (0 .. MaxRows + 1) \cup {Half}] : k \in 0 .. 2}

GatherSetup(shape, view, indices, indexShape) ==
    /\ ret = NoRet
    /\ tens = << >>
    /\ LET whole == Tensor(OpBuf, 0, calculateSize(shape), shape,
                           calculateSize(shape))
           data == Counting(calculateSize(shape))
           h == (OpBuf :> data) @@
                (OpB :> [j \in 0 .. Len(indices) - 1 |-> indices[j + 1]])
           a == IF view.shape = << >> THEN whole
                ELSE Slice(h, whole, view.offset, view.shape)
       IN  /\ a.held
           /\ heap' = h
           /\ tens' = (OpA :> a) @@
                      (OpB :> Tensor(OpB, 0, Len(indices), indexShape,
                                     calculateSize(indexShape)))
    /\ ret' = [op |-> "setup"]
    /\ UNCHANGED <<kc, views, nWrites, nOps, parked, tn, cfg, gen, fwd>>

GatherCall ==
    /\ ret.op = "setup"
    /\ heap' = Gather(Frame, OpC, OpA, OpB).h
    /\ tens' = Gather(Frame, OpC, OpA, OpB).ts
    /\ ret' = [op |-> "Gather",
               status |-> Outcome(Gather(Frame, OpC, OpA, OpB))]
    /\ UNCHANGED <<kc, views, nWrites, nOps, parked, tn, cfg, gen, fwd>>

NextGather ==
    \/ /\ ret = NoRet
       /\ \E shape \in GatherShapes, indices \in GatherIndexLists :
          \E view \in GatherViews(shape) \cup {[offset |-> 0, shape |-> << >>]},
             indexShape \in {<<Len(indices)>>, <<Len(indices), 1>>} :
                /\ calculateSize(indexShape) = Len(indices)
                /\ GatherSetup(shape, view, indices, indexShape)
    \/ GatherCall

SpecGather == Init /\ [][NextGather]_vars

\* Two operands built by NewTensor over arrays of their own: element j of
\* the first holds the residue of j + 1, element j of the second that of
\* 2j + 1.
Stepping(len) == [j \in 0 .. len - 1 |-> 2 * j + 1]
Residues(f) == [j \in DOMAIN f |-> V(f[j])]

OperandShapes ==
    UNION {[1 .. k -> 0 .. MaxExtent] : k \in 1 .. MaxRank}
      \cup {<<Half, 1>>, <<Half, 1, 1>>, <<1, Half, 1>>,
            <<MaxExtent, MaxExtent + 1>>}

KernelSetup(sa, sb) ==
    /\ ret = NoRet
    /\ tens = << >>
    /\ heap' = (OpA :> Residues(Counting(calculateSize(sa)))) @@
               (OpB :> Residues(Stepping(calculateSize(sb))))
    /\ tens' = (OpA :> Tensor(OpA, 0, calculateSize(sa), sa,
                              calculateSize(sa))) @@
               (OpB :> Tensor(OpB, 0, calculateSize(sb), sb,
                              calculateSize(sb)))
    /\ ret' = [op |-> "setup"]
    /\ UNCHANGED <<kc, views, nWrites, nOps, parked, tn, cfg, gen, fwd>>

MatMulCall ==
    /\ ret.op = "setup"
    /\ heap' = MatMulTransB(Frame, OpC, OpA, OpB).h
    /\ tens' = MatMulTransB(Frame, OpC, OpA, OpB).ts
    /\ ret' = [op |-> "MatMulTransB",
               status |-> Outcome(MatMulTransB(Frame, OpC, OpA, OpB))]
    /\ UNCHANGED <<kc, views, nWrites, nOps, parked, tn, cfg, gen, fwd>>

NextMatMul ==
    \/ /\ ret = NoRet
       /\ \E sa \in OperandShapes, sb \in OperandShapes : KernelSetup(sa, sb)
    \/ MatMulCall

SpecMatMul == Init /\ [][NextMatMul]_vars

\* A call of a kernel on the operands, r its outcome.
KernelCall(op, r) ==
    /\ ret.op = "setup"
    /\ heap' = r.h
    /\ tens' = r.ts
    /\ ret' = [op |-> op, status |-> Outcome(r)]
    /\ UNCHANGED <<kc, views, nWrites, nOps, parked, tn, cfg, gen, fwd>>

MaskedSoftmaxCall ==
    KernelCall("MaskedSoftmax", MaskedSoftmax(Frame, OpA))

GroupAttnQKCall ==
    KernelCall("GroupAttnQK", GroupAttnQK(Frame, OpC, OpA, OpB))

GroupAttnScoreCall ==
    KernelCall("GroupAttnScore", GroupAttnScore(Frame, OpC, OpA, OpB))

GroupAttnVCall ==
    KernelCall("GroupAttnV", GroupAttnV(Frame, OpC, OpA, OpB))

NextAttn ==
    \/ /\ ret = NoRet
       /\ \E sa \in OperandShapes, sb \in OperandShapes : KernelSetup(sa, sb)
    \/ MaskedSoftmaxCall
    \/ GroupAttnQKCall
    \/ GroupAttnScoreCall
    \/ GroupAttnVCall

SpecAttn == Init /\ [][NextAttn]_vars

\* ------------------------------------------------------ loading a model
\* The configurations of config.json: a head count or the hidden size may
\* be 0 (a field that is absent is the zero value).
LoadConfigs ==
    {[Vocab |-> vc, NLayers |-> nl, NQH |-> nq, NKVH |-> nkv, D |-> d,
      Di |-> 1, MaxSeqLen |-> ms, EosTokenID |-> 1] :
        vc \in 1 .. Vocab, nl \in 0 .. 1, nq \in 0 .. MaxHeads,
        nkv \in 0 .. MaxHeads, d \in 0 .. 2 * MaxHeads,
        ms \in {MaxRows, MaxRows + 1}}

\* A call of FromSafeTensors on a model directory.
LoadCall(config, seed) ==
    /\ FromSafeTensors(config, seed)
    /\ ret' = [op |-> "FromSafeTensors", config |-> config]
    /\ UNCHANGED <<views, nWrites, nOps, parked, tn>>

NextLoad == \E c \in LoadConfigs, seed \in 0 .. MaxSeed : LoadCall(c, seed)

SpecLoad == Init /\ [][NextLoad]_vars

\* ------------------------------------------------------- claims: KV cache
IsCacheCall(r) == r.op \in {"KCache", "VCache"}

\* C1: whenever length + N, as a mathematical integer, exceeds maxSeqLen,
\* Increment(N) returns an error and leaves the logical length unchanged.
C1_IncrementBeyondCapacityFails ==
    [][(ret'.op = "Increment" /\ Length(kc) + ret'.n > MaxSeqLen(kc))
          => (ret'.status = "err" /\ Length(kc') = Length(kc))]_vars

\* C2: the logical length never decreases from one state to the next; a
\* successful Increment(N) yields exactly old length + N and a failed one
\* leaves the length as it was.
C2_LengthNeverDecreases ==
    [][kc.created =>
          /\ Length(kc') >= Length(kc)
          /\ ret'.op = "Increment" =>
                Length(kc') = IF ret'.status = "ok"
                              THEN Length(kc) + ret'.n
                              ELSE Length(kc)]_vars

\* C3: in every state of a successfully created cache 0 <= Len() <=
\* MaxSeqLen(), and MaxSeqLen(), Dim() and NumLayers() keep the values given
\* to NewKVCache, whatever calls (successful or failing) are applied.
C3_LengthWithinCapacity ==
    [][/\ kc'.created =>
            /\ 0 <= Length(kc') /\ Length(kc') <= MaxSeqLen(kc')
       /\ (ret'.op = "NewKVCache" /\ ret'.status = "ok") =>
            /\ kc'.created
            /\ MaxSeqLen(kc') = ret'.maxSeqLen
            /\ Dim(kc') = ret'.dim
            /\ NumLayers(kc') = ret'.nLayers
            /\ Length(kc') = ret'.initLen
       /\ (ret'.op = "NewKVCache" /\ ret'.status = "err") => ~kc'.created
       /\ kc.created =>
            /\ kc'.created
            /\ MaxSeqLen(kc') = MaxSeqLen(kc)
            /\ Dim(kc') = Dim(kc)
            /\ NumLayers(kc') = NumLayers(kc)]_vars

\* C3 witness: a successful Increment has filled a cache to its capacity.
C3_Witness ==
    /\ kc.created
    /\ ret.op = "Increment" /\ ret.status = "ok" /\ ret.n > 0
    /\ Length(kc) = MaxSeqLen(kc)

\* C4: KCache / VCache return an error (no view, no abort, cache unchanged)
\* when layer >= number of layers or start >= length, and return a view
\* without error when layer < number of layers and start < length.
C4_ViewRangeChecks ==
    [][IsCacheCall(ret') =>
          /\ kc' = kc /\ heap' = heap
          /\ IF ret'.layer >= NumLayers(kc) \/ ret'.start >= Length(kc)
             THEN ret'.status = "err" /\ ~ret'.view.held
             ELSE ret'.status = "ok" /\ ret'.view.held]_vars

\* The array KCache / VCache of a layer is meant to show.
ArrOf(w) == IF w.op = "KCache" THEN KArr(w.layer) ELSE VArr(w.layer)

\* View w shows row r, column c of its layer's buffer at its own row
\* r - start: the element exists in both and is the same array cell.
ShowsCell(h, c, w, r, col) ==
    LET i == (r - w.start) * c.dim + col
    IN  /\ i < w.t.len
        /\ r * c.dim + col \in DOMAIN h[ArrOf(w)]
        /\ w.t.arr = ArrOf(w)
        /\ w.t.off + i = r * c.dim + col

ViewSharesStorage(h, c, w) ==
    /\ w.t.shape = <<w.lenAt - w.start, c.dim>>
    /\ \A r \in w.start .. w.lenAt - 1 : \A col \in 0 .. c.dim - 1 :
          ShowsCell(h, c, w, r, col)

\* Two held views of one buffer show the same value on every common row.
ViewsAgree(h, c, w1, w2) ==
    ArrOf(w1) = ArrOf(w2) =>
        \A r \in w1.start .. w1.lenAt - 1 : \A col \in 0 .. c.dim - 1 :
            (r >= w2.start /\ r < w2.lenAt) =>
                /\ (r - w1.start) * c.dim + col < w1.t.len
                /\ (r - w2.start) * c.dim + col < w2.t.len
                /\ ViewAt(h, w1, (r - w1.start) * c.dim + col)
                     = ViewAt(h, w2, (r - w2.start) * c.dim + col)

\* C5: a view returned by KCache/VCache(layer, start) has shape
\* [Len - start, dim] and shares storage with the layer's buffer from row
\* start on; views taken before and after an Increment show identical
\* values on their common rows, a write through one is seen through the
\* other, and taking a view or calling Increment changes no buffer element.
C5_ViewsShareStorage ==
    [][/\ \A s \in Slots : views'[s].held =>
              ViewSharesStorage(heap', kc', views'[s])
       /\ (views'[1].held /\ views'[2].held) =>
              ViewsAgree(heap', kc', views'[1], views'[2])
       /\ (IsCacheCall(ret') \/ ret'.op = "Increment") => heap' = heap]_vars

\* ----------------------------------------------------- claims: Generate
\* The tokens appended to the prompt so far.
Generated == Len(gen.finalSeq) - Len(gen.prompt)

\* A forward call is in progress or has just returned its logits.
InForward == gen.pc \in {"layers", "pick"}

\* C6: once a forward call of Generate has asked for more rows than the
\* cache can hold, Generate has returned an error to its caller: the
\* process has not aborted and Forward is not running on with the cache
\* length left where it was.
C6_CapacityFailureIsReturned ==
    fwd.incErr => gen.pc = "returned" /\ gen.err # "none"

\* C7: no forward call is made once the number of generated tokens has
\* reached maxLen or the token just chosen is the end-of-sequence token.
C7_StopsAtMaxLenOrEos ==
    InForward =>
        /\ Generated < gen.maxLen
        /\ Generated > 0 =>
               gen.finalSeq[Len(gen.finalSeq)] # cfg.EosTokenID

\* The rows the cache held before the forward call in progress, if any.
Settled == IF gen.pc = "layers" THEN fwd.pastSeqLen ELSE Length(kc)

\* Generate is about to make its forward call number gen.i + 1.
AboutToCall == gen.pc = "loop" /\ gen.i < n

\* C8: one cache serves every forward call of a Generate call; the first
\* call gets the whole prompt, call k >= 2 gets exactly the token chosen
\* from the logits of call k - 1, and the cache holds
\* prompt length + k - 2 rows before it; no step replaces the cache or
\* touches the rows it held before the call in progress.
C8_PrefillThenOneToken ==
    /\ [](AboutToCall =>
            /\ kc.created
            /\ gen.i = 0 => gen.tokens = gen.prompt /\ Length(kc) = 0
            /\ gen.i >= 1 =>
                   /\ gen.tokens = <<ArgMax(heap, tens[Logits])>>
                   /\ Length(kc) = Len(gen.prompt) + (gen.i + 1) - 2)
    /\ [][gen.pc \notin {"idle", "returned"} =>
            /\ kc'.created
            /\ MaxSeqLen(kc') = MaxSeqLen(kc)
            /\ Dim(kc') = Dim(kc)
            /\ NumLayers(kc') = NumLayers(kc)
            /\ \A l \in 0 .. NumLayers(kc) - 1,
                  j \in 0 .. Settled * Dim(kc) - 1 :
                   /\ heap'[KArr(l)][j] = heap[KArr(l)][j]
                   /\ heap'[VArr(l)][j] = heap[VArr(l)][j]]_vars

\* The fourth forward call of a two-token prompt is about to be made.
C8_Witness ==
    /\ AboutToCall
    /\ gen.i = 3
    /\ Len(gen.prompt) = 2
    /\ Length(kc) = 4

\* C9: no step of Forward or Generate changes the data or the shape of a
\* parameter tensor.
C9_WeightsNeverModified ==
    [][cfg.status = "ok" =>
          \A id \in WeightIds(cfg) :
              heap'[id] = heap[id] /\ tens'[id] = tens[id]]_vars

\* A Generate call has run its fifty forward calls and the parameters are
\* what the checkpoint held.
C9_Witness ==
    /\ gen.pc = "returned"
    /\ gen.err = "none"
    /\ Generated = n
    /\ \E seed \in 0 .. MaxSeed :
          /\ Restrict(heap, WeightIds(cfg))
               = ParamsFromSafeTensors(cfg, seed).h
          /\ Restrict(tens, WeightIds(cfg))
               = ParamsFromSafeTensors(cfg, seed).ts

\* ---------------------------------------------------------- claims: tensor
\* C10: NewTensor succeeds iff the buffer length equals the mathematical
\* product of the extents (0 for the empty shape) and then Size() is that
\* product; EmptyTensor allocates a zero-filled buffer of exactly that many
\* elements.
C10_SizeIsProduct ==
    /\ ret.op = "NewTensor" =>
          /\ ret.status = "ok" <=> ret.dataLen = MathSize(ret.shape)
          /\ ret.status = "ok" => Size(tn) = MathSize(ret.shape)
    /\ ret.op = "EmptyTensor" =>
          /\ Size(tn) = MathSize(ret.shape)
          /\ DOMAIN heap[tn.arr] = 0 .. MathSize(ret.shape) - 1
          /\ \A i \in DOMAIN heap[tn.arr] : heap[tn.arr][i] = 0


\* ------------------------------------------- claims: reshaping, indexing
\* The row-major position of an index tuple, as a mathematical integer.
RECURSIVE FlatIndex(_, _)
FlatIndex(shape, index) ==
    IF Len(shape) = 0 THEN 0
    ELSE FlatIndex(SubSeq(shape, 1, Len(shape) - 1),
                   SubSeq(index, 1, Len(index) - 1)) * shape[Len(shape)]
           + index[Len(index)]

InRange(shape, index) ==
    /\ Len(index) = Len(shape)
    /\ Len(shape) >= 1
    /\ \A i \in 1 .. Len(shape) : index[i] < shape[i]

\* C11: Reshape aborts, changing nothing, when the new shape's element
\* count differs from the tensor's; otherwise it replaces the shape and
\* nothing else; and At of an in-range index tuple addresses the element
\* at the row-major position computed with the current extents, after
\* any number of reshapes.
C11_ReshapeThenAt ==
    [][/\ ret'.op = "Reshape" =>
            IF MathSize(ret'.shape) # Size(tn)
            THEN ret'.status = "panic" /\ tn' = tn /\ heap' = heap
            ELSE /\ ret'.status = "ok"
                 /\ tn' = [tn EXCEPT !.shape = ret'.shape]
                 /\ heap' = heap
       /\ (ret'.op = "At" /\ InRange(tn.shape, ret'.index)) =>
            /\ ret'.status = "ok"
            /\ ret'.offset = FlatIndex(tn.shape, ret'.index)
            /\ \A j \in DOMAIN heap[tn.arr] :
                   heap'[tn.arr][j] =
                       IF j = tn.off + FlatIndex(tn.shape, ret'.index)
                       THEN Max(AtVals) ELSE heap[tn.arr][j]]_vars

\* C12: At aborts on a wrong index count and on an index at or beyond
\* its extent; an accepted index tuple has an offset below Size(), no
\* other accepted tuple has the same offset, and a write through the
\* returned reference lands on that element of Data().
C12_AtOffsets ==
    [][ret'.op = "At" =>
         /\ (\/ Len(ret'.index) # Len(tn.shape)
             \/ \E i \in 1 .. Len(tn.shape) : ret'.index[i] >= tn.shape[i])
               => ret'.status = "panic"
         /\ ret'.status = "ok" =>
               /\ ret'.offset < Size(tn)
               /\ \A other \in AtIndexes :
                      (other # ret'.index /\ At(tn, other).ok)
                          => At(tn, other).offset # ret'.offset
               /\ heap'[tn.arr][tn.off + ret'.offset] = Max(AtVals)]_vars

\* C13: Slice fails whenever offset plus the product of the target
\* extents, as mathematical integers, exceeds the source's element count;
\* otherwise the result has that product as its Size() and its element i
\* is the source's element offset + i, in the same storage; the source
\* keeps its shape and size.
C13_SliceRange ==
    [][ret'.op = "Slice" =>
         /\ tn' = tn
         /\ heap' = heap
         /\ IF ret'.offset + MathSize(ret'.shape) > Size(tn)
            THEN ret'.status = "panic" /\ views' = views
            ELSE /\ ret'.status = "ok"
                 /\ Size(views'[1].t) = MathSize(ret'.shape)
                 /\ views'[1].t.shape = ret'.shape
                 /\ views'[1].t.arr = tn.arr
                 /\ views'[1].t.off = tn.off + ret'.offset
                 /\ views'[1].t.len = MathSize(ret'.shape)]_vars

\* ------------------------------------------------------ claims: Gather
\* The operands of the call are of the ranks Gather asks for.
GatherRanksOk == Len(tens[OpA].shape) = 2 /\ Len(tens[OpB].shape) = 1

\* Some index is at or beyond the input's row count.
GatherIndexBeyond ==
    \E i \in 0 .. tens[OpB].len - 1 :
        Data(heap, tens[OpB], i) >= tens[OpA].shape[1]

\* C14: Gather aborts whenever an index is at or beyond the row count of
\* its rank-2 input, also for inputs without columns and for inputs that
\* are views of a larger buffer.
C14_GatherIndexCheck ==
    [][(ret'.op = "Gather" /\ GatherRanksOk /\ GatherIndexBeyond)
          => ret'.status = "panic"]_vars

\* C15: with every index below the row count Gather returns a new tensor
\* of shape [n, cols] whose row i is the input's row indices[i], sharing
\* no storage with the input; a wrong rank aborts; the operands are left
\* as they were.
C15_GatherRows ==
    [][ret'.op = "Gather" =>
         /\ heap'[OpBuf] = heap[OpBuf] /\ heap'[OpB] = heap[OpB]
         /\ tens'[OpA] = tens[OpA] /\ tens'[OpB] = tens[OpB]
         /\ ~GatherRanksOk => ret'.status = "panic"
         /\ (GatherRanksOk /\ ~GatherIndexBeyond) =>
              /\ ret'.status = "ok"
              /\ tens'[OpC].shape = <<tens[OpB].len, tens[OpA].shape[2]>>
              /\ Size(tens'[OpC]) = tens[OpB].len * tens[OpA].shape[2]
              /\ tens'[OpC].arr \notin {OpBuf, OpB}
              /\ \A i \in 0 .. tens[OpB].len - 1,
                    c \in 0 .. tens[OpA].shape[2] - 1 :
                     Data(heap', tens'[OpC], i * tens[OpA].shape[2] + c)
                       = Data(heap, tens[OpA],
                              Data(heap, tens[OpB], i) * tens[OpA].shape[2]
                                + c)]_vars

\* ------------------------------------------------ claims: MatMulTransB
\* The operands of a kernel call are left as they were.
OperandsKept ==
    /\ heap'[OpA] = heap[OpA] /\ heap'[OpB] = heap[OpB]
    /\ tens'[OpA] = tens[OpA] /\ tens'[OpB] = tens[OpB]

\* The operands are of the ranks and extents MatMulTransB asks for.
MatMulOperandsOk ==
    /\ Len(tens[OpA].shape) >= 2
    /\ Len(tens[OpB].shape) = 2
    /\ Last(tens[OpA].shape) = tens[OpB].shape[2]

Leading(shape) == SubSeq(shape, 1, Len(shape) - 1)

\* C16: MatMulTransB returns a new tensor of shape (a's leading extents)
\* + [N] whose entry [row, n] is the sum over k of a[row, k] * b[n, k];
\* it aborts on a of rank below 2, b not of rank 2 or differing K, and
\* leaves a and b unchanged.
C16_MatMulTransB ==
    [][ret'.op = "MatMulTransB" =>
         /\ OperandsKept
         /\ ~MatMulOperandsOk => ret'.status = "panic"
         /\ MatMulOperandsOk =>
              LET a == tens[OpA]
                  b == tens[OpB]
                  kk == b.shape[2]
                  nn == b.shape[1]
                  c == tens'[OpC]
              IN  /\ ret'.status = "ok"
                  /\ c.arr \notin {OpA, OpB}
                  /\ c.shape = Leading(a.shape) \o <<nn>>
                  /\ Size(c) = MathProduct(Leading(a.shape)) * nn
                  /\ \A row \in 0 .. MathProduct(Leading(a.shape)) - 1,
                        col \in 0 .. nn - 1 :
                         Data(heap', c, row * nn + col)
                           = V(Sum([k \in 0 .. kk - 1 |->
                                     Data(heap, a, row * kk + k)
                                       * Data(heap, b, col * kk + k)],
                                   kk))]_vars

\* ------------------------------------------------ claims: MaskedSoftmax
\* Entry p of tensor t, of which orig was the data before the call and
\* now is the data after it, is as MaskedSoftmax with (t.Size() /
\* (seqLen * totalSeqLen)) matrices of seqLen rows leaves it: 0 at and
\* after column totalSeqLen - seqLen + i + 1 of row i, and before that
\* column the entry's weight among the entries of the row before that
\* column, the divisor being the sum of exactly their numerators and
\* holding the numerator of the largest of them.
MaskedEntry(orig, now, t, p) ==
    LET seqLen == t.shape[Len(t.shape) - 1]
        totalSeqLen == Last(t.shape)
        i == (p \div totalSeqLen) % seqLen
        j == p % totalSeqLen
        first == t.off + p - j
        past == totalSeqLen - seqLen
        prefix == {orig[first + c] : c \in 0 .. past + i}
        sumExp == Sum([c \in 0 .. past + i |->
                          ExpMix(orig[first + c], Max(prefix))],
                      past + i + 1)
    IN  IF j > past + i THEN now[t.off + p] = 0
        ELSE /\ sumExp >= ExpMix(0, 0)
             /\ ExpMix(orig[t.off + p], Max(prefix)) > 0
             /\ now[t.off + p]
                  = DivMix(ExpMix(orig[t.off + p], Max(prefix)), sumExp)

\* C17: after MaskedSoftmax on [.., seqLen, totalSeqLen] the entries of
\* row i at columns totalSeqLen - seqLen + i + 1 and beyond are 0 and the
\* entries before them are the normalised weights of that row prefix; the
\* same holds of the scores GroupAttnScore returns for seqLen new tokens
\* and totalSeqLen keys, so that token i has weight 0 on every key after
\* position (totalSeqLen - seqLen) + i.
C17_MaskedSoftmax ==
    [][/\ (ret'.op = "MaskedSoftmax" /\ ret'.status = "ok") =>
            /\ tens' = tens
            /\ \A p \in 0 .. tens[OpA].len - 1 :
                   MaskedEntry(heap[OpA], heap'[OpA], tens[OpA], p)
       /\ (ret'.op = "GroupAttnScore" /\ ret'.status = "ok") =>
            LET t == tens'[OpC]
                unmasked == GroupAttnQK(Frame, OpC, OpA, OpB).h[OpC]
            IN  /\ t.shape = <<tens[OpA].shape[2], tens[OpA].shape[1],
                               tens[OpB].shape[1]>>
                /\ \A p \in 0 .. t.len - 1 :
                       MaskedEntry(unmasked, heap'[OpC], t, p)]_vars

\* A matrix with one more column than rows has been normalised: one row
\* is in the cache already, so the first row has lost its last column
\* and the second row has kept a weight in its first.
C17_Witness ==
    /\ ret.op = "MaskedSoftmax" /\ ret.status = "ok"
    /\ tens[OpA].shape = <<MaxExtent, MaxExtent + 1>>
    /\ heap[OpA][MaxExtent] = 0
    /\ heap[OpA][MaxExtent + 1] # 0

\* ------------------------------------------- claims: grouped attention
\* Head count hq is a positive integer multiple of head count hk.
PositiveMultiple(hq, hk) == hk > 0 /\ hq > 0 /\ hq % hk = 0

BothRank3 == Len(tens[OpA].shape) = 3 /\ Len(tens[OpB].shape) = 3

\* The operands are rejected by the checks the grouped kernels promise:
\* ranks, then the shared extent (D of q and k; n2 of attn and v), then
\* the head counts (q is [n1, hq, D], k and v are [n2, hk, D], attn is
\* [h, n1, n2]).
RejectedQK ==
    \/ ~BothRank3
    \/ tens[OpA].shape[3] # tens[OpB].shape[3]
    \/ ~PositiveMultiple(tens[OpA].shape[2], tens[OpB].shape[2])

RejectedV ==
    \/ ~BothRank3
    \/ tens[OpA].shape[3] # tens[OpB].shape[1]
    \/ ~PositiveMultiple(tens[OpA].shape[1], tens[OpB].shape[2])

\* C18: GroupAttnQK, GroupAttnScore and GroupAttnV return an error, and
\* never abort, on operands not of rank 3, on differing D (QK, Score) or
\* n2 (AttnV), and on a head count that is not a positive integer multiple
\* of the key/value head count, a head count of 0 on either side included.
C18_GroupedKernelsReturnErrors ==
    [][/\ (ret'.op \in {"GroupAttnQK", "GroupAttnScore"} /\ RejectedQK)
            => ret'.status = "err"
       /\ (ret'.op = "GroupAttnV" /\ RejectedV) => ret'.status = "err"]_vars

\* C19: for q [n1, hq, D] and k [n2, hk, D] with hk > 0 and hq = m * hk,
\* GroupAttnQK returns (never the 'invalid hPrime' error) a tensor of
\* shape [hq, n1, n2] in which the entry [m * g + r, i, j] of every query
\* head of group g is the dot product of q[i, m * g + r, :] with
\* k[j, g, :] (the scale factor is the residue 1); q and k are unchanged.
C19_GroupAttnQK ==
    [][(/\ ret'.op = "GroupAttnQK"
        /\ BothRank3
        /\ tens[OpA].shape[3] = tens[OpB].shape[3]
        /\ tens[OpB].shape[2] > 0
        /\ tens[OpA].shape[2] % tens[OpB].shape[2] = 0) =>
         LET q == tens[OpA]
             k == tens[OpB]
             n1 == q.shape[1]
             hq == q.shape[2]
             dd == q.shape[3]
             n2 == k.shape[1]
             hk == k.shape[2]
             mm == hq \div hk
             c == tens'[OpC]
         IN  /\ OperandsKept
             /\ ret'.status = "ok"
             /\ c.arr \notin {OpA, OpB}
             /\ c.shape = <<hq, n1, n2>>
             /\ Size(c) = hq * n1 * n2
             /\ \A g \in 0 .. hk - 1, r \in 0 .. mm - 1,
                   i \in 0 .. n1 - 1, j \in 0 .. n2 - 1 :
                    Data(heap', c, (mm * g + r) * n1 * n2 + i * n2 + j)
                      = V(Sum([d \in 0 .. dd - 1 |->
                                 Data(heap, q,
                                      i * hq * dd + (mm * g + r) * dd + d)
                                   * Data(heap, k,
                                          j * hk * dd + g * dd + d)],
                              dd))]_vars

\* C20: for attn [h, n1, n2] and v [n2, h', D] with h' > 0 and h = m * h',
\* GroupAttnV returns a new tensor of shape [n1, h, D] whose entry
\* [i, hd, d] is the sum over j of attn[hd, i, j] * v[j, hd div m, d];
\* attn and v are unchanged.
C20_GroupAttnV ==
    [][(/\ ret'.op = "GroupAttnV"
        /\ BothRank3
        /\ tens[OpA].shape[3] = tens[OpB].shape[1]
        /\ tens[OpB].shape[2] > 0
        /\ tens[OpA].shape[1] % tens[OpB].shape[2] = 0) =>
         LET attn == tens[OpA]
             v == tens[OpB]
             hh == attn.shape[1]
             n1 == attn.shape[2]
             n2 == attn.shape[3]
             hv == v.shape[2]
             dd == v.shape[3]
             mm == hh \div hv
             c == tens'[OpC]
         IN  /\ OperandsKept
             /\ ret'.status = "ok"
             /\ c.arr \notin {OpA, OpB}
             /\ c.shape = <<n1, hh, dd>>
             /\ Size(c) = n1 * hh * dd
             /\ \A i \in 0 .. n1 - 1, hd \in 0 .. hh - 1, d \in 0 .. dd - 1 :
                    Data(heap', c, i * hh * dd + hd * dd + d)
                      = V(Sum([j \in 0 .. n2 - 1 |->
                                 Data(heap, attn, hd * n1 * n2 + i * n2 + j)
                                   * Data(heap, v,
                                          j * hv * dd + (hd \div mm) * dd
                                            + d)],
                              n2))]_vars

\* -------------------------------------------- claims: loading a model
\* C21: FromSafeTensors returns an error, without aborting, whenever the
\* key/value head count does not evenly divide the query head count or
\* the query head count does not evenly divide the hidden size, a head
\* count of 0 included; on success DQKV = D / NQH.
C21_LoadRejectsBadHeadCounts ==
    [][ret'.op = "FromSafeTensors" =>
         LET c == ret'.config
         IN  /\ (\/ c.NKVH = 0
                 \/ c.NQH = 0
                 \/ c.NQH % c.NKVH # 0
                 \/ c.D % c.NQH # 0) => cfg'.status = "err"
             /\ cfg'.status = "ok" =>
                  c.NQH * cfg'.DQKV = c.D]_vars

\* ------------------------------------------ claims: Forward and cache
\* The key and value buffers of the layers of cache c.
LayerBuffers(c) ==
    {KArr(l) : l \in 0 .. c.nLayers - 1} \cup
    {VArr(l) : l \in 0 .. c.nLayers - 1}

\* Rows [from, to) of buffer arr of cache c are the same in h1 and h2.
SameRows(h1, h2, c, arr, from, to) ==
    \A j \in from * c.dim .. to * c.dim - 1 : h2[arr][j] = h1[arr][j]

\* A step in which a Forward call starts: the loop test passed and the
\* call went on to its layers or aborted before them.
ForwardStarts == gen.pc = "loop" /\ gen'.pc \in {"layers", "panicked"}

\* C22: a Forward call on n tokens with prior length p, p + n within the
\* capacity, advances the logical length once, to p + n, whatever the
\* number of layers, and only after the new rows are in the cache: a row
\* the length counts is not written any more.
C22_CopyThenAdvanceOnce ==
    [][(kc.created /\ kc'.created) =>
         /\ Length(kc') # Length(kc) => ForwardStarts
         /\ (ForwardStarts /\ ~fwd'.incErr) =>
              Length(kc') = fwd'.pastSeqLen + fwd'.seqLen
         /\ \A arr \in LayerBuffers(kc) :
                SameRows(heap, heap', kc, arr, 0, Length(kc))]_vars

\* The rows of layer l that Forward calls have written: those of the
\* calls before the last one, and those of the last call in the layers it
\* has copied.
WrittenRows(l) ==
    IF l < fwd.copied THEN fwd.pastSeqLen + fwd.seqLen ELSE fwd.pastSeqLen

\* C23: whenever no Forward call is in progress (before a call, after a
\* return, after an abort) the logical length counts only rows that
\* Forward has written in every layer's key and value buffer.
C23_LengthCountsWrittenRows ==
    (kc.created /\ ~InForward) =>
        \A l \in 0 .. kc.nLayers - 1 : Length(kc) <= WrittenRows(l)

\* A step that runs one iteration of Forward's layer loop.
LayerStep == gen.pc = "layers" /\ fwd'.i = fwd.i + 1

\* The key and value rows of the layer about to run, as Forward computes
\* them from the residual: the key rotated from position startPos on.
NewK(startPos) ==
    LET shape == <<fwd.seqLen, U32(cfg.NKVH), U32(cfg.DQKV)>>
        m1 == RMSNorm(Frame, Hidden, Residual, RMSAttW(fwd.i))
        m2 == MatMulTransB(m1, K, Hidden, WK(fwd.i))
        m3 == Rope(Reshape(m2, K, shape), K, startPos)
    IN  [j \in 0 .. m3.ts[K].len - 1 |-> Data(m3.h, m3.ts[K], j)]

NewV ==
    LET m1 == RMSNorm(Frame, Hidden, Residual, RMSAttW(fwd.i))
        m2 == MatMulTransB(m1, Vt, Hidden, WV(fwd.i))
    IN  [j \in 0 .. m2.ts[Vt].len - 1 |-> Data(m2.h, m2.ts[Vt], j)]

\* C24: a Forward call on n tokens with prior length p writes, in every
\* layer, rows [p, p + n) of the key and of the value buffer, the key
\* rows rotated from position p on, and leaves rows [0, p) and the rows
\* from p + n on of every layer's buffers as they were; no other step
\* writes a buffer.
C24_AppendAtPriorLength ==
    [][(kc.created /\ kc'.created) =>
         LET p == fwd.pastSeqLen
             q == fwd.pastSeqLen + fwd.seqLen
         IN  /\ \A arr \in LayerBuffers(kc) :
                    IF LayerStep /\ arr \in {KArr(fwd.i), VArr(fwd.i)}
                    THEN /\ SameRows(heap, heap', kc, arr, 0, p)
                         /\ SameRows(heap, heap', kc, arr, q, kc.maxSeqLen)
                    ELSE SameRows(heap, heap', kc, arr, 0, kc.maxSeqLen)
             /\ (LayerStep /\ gen'.pc = "layers") =>
                  \A j \in 0 .. fwd.seqLen * kc.dim - 1 :
                      /\ heap'[KArr(fwd.i)][p * kc.dim + j] = NewK(p)[j]
                      /\ heap'[VArr(fwd.i)][p * kc.dim + j] = NewV[j]]_vars

\* A decode step has run its layers: the cache held rows before the call
\* and the call has put a row that is not all zero behind them.
C24_Witness ==
    /\ kc.created /\ gen.pc = "layers"
    /\ fwd.copied = cfg.NLayers
    /\ fwd.pastSeqLen > 0 /\ fwd.seqLen = 1
    /\ \E j \in 0 .. kc.dim - 1 :
           heap[KArr(0)][fwd.pastSeqLen * kc.dim + j] # 0

IsPrefix(sa, sb) ==
    Len(sa) <= Len(sb) /\ \A j \in 1 .. Len(sa) : sa[j] = sb[j]

\* A call that is between two iterations of its loop has a cache whose
\* length is what its own forward calls have added: nothing before the
\* first one, the prompt after it and one row per later call.
OwnCacheLength(call) ==
    (call.gen.pc = "loop" /\ call.gen.err = "none") =>
        /\ call.kc.created
        /\ Length(call.kc) = IF call.gen.i = 0 THEN 0
                             ELSE Len(call.gen.prompt) + call.gen.i - 1

Running == [gen |-> gen, fwd |-> fwd, kc |-> kc]

\* C26: each Generate call creates its own cache of length 0 whose buffers
\* no other call has written; no step of either call changes a parameter
\* of the model; each cache's length follows the forward calls of its own
\* call only; and two interleaved calls on the same prompt choose the same
\* tokens, so that their results are equal.
C26_CallsDoNotInterfere ==
    [][cfg.status = "ok" =>
          /\ (gen.pc = "idle" /\ gen'.pc = "loop" /\ parked' = parked) =>
                 /\ kc'.created
                 /\ Length(kc') = 0
                 /\ \A arr \in LayerBuffers(kc') :
                        \A j \in DOMAIN heap'[arr] : heap'[arr][j] = 0
          /\ \A id \in WeightIds(cfg) :
                 heap'[id] = heap[id] /\ tens'[id] = tens[id]
          /\ OwnCacheLength(Running)'
          /\ OwnCacheLength(parked)'
          /\ (/\ gen'.pc \notin {"idle", "panicked"}
              /\ parked'.gen.pc # "idle"
              /\ gen'.prompt = parked'.gen.prompt) =>
                 \/ IsPrefix(gen'.finalSeq, parked'.gen.finalSeq)
                 \/ IsPrefix(parked'.gen.finalSeq, gen'.finalSeq)]_vars

\* Both calls were given the same prompt, their steps were interleaved, and
\* both have returned the same fifty tokens after it.
C26_Witness ==
    /\ gen.pc = "returned"
    /\ parked.gen.pc = "returned"
    /\ gen.err = "none"
    /\ parked.gen.err = "none"
    /\ Len(gen.finalSeq) = Len(gen.prompt) + n
    /\ gen.finalSeq = parked.gen.finalSeq
    /\ Length(kc) = Length(parked.kc)
    /\ kc.created
    /\ \E id \in DOMAIN parked.heap : id \in LayerBuffers(parked.kc)

PromptInVocab == \A j \in 1 .. Len(gen.prompt) : gen.prompt[j] < cfg.Vocab

\* The prompt is not empty and the cache has room for the fifty calls.
Fits == Len(gen.prompt) >= 1 /\ Len(gen.prompt) + n - 1 <= cfg.MaxSeqLen

\* The call is over: it has returned or the process has aborted.
Over == gen.pc \in {"returned", "panicked"}

Chooses == gen.pc = "pick" /\ gen'.pc = "loop"

\* C29: the token t that Generate chooses after a forward call is below
\* the vocabulary size, no logit is larger than logits[t], and every logit
\* before t is smaller; t is the token appended to the result and the one
\* given to the next forward call.
C29_GreedyLowestIndex ==
    [][Chooses =>
          LET logits == tens[Logits]
              t == gen'.finalSeq[Len(gen'.finalSeq)]
          IN  /\ Len(gen'.finalSeq) = Len(gen.finalSeq) + 1
              /\ Size(logits) = U32(cfg.Vocab)
              /\ t < U32(cfg.Vocab)
              /\ \A j \in 0 .. Size(logits) - 1 :
                     /\ Data(heap, logits, t) >= Data(heap, logits, j)
                     /\ j < t =>
                            Data(heap, logits, t) > Data(heap, logits, j)
              /\ gen'.tokens = <<t>>]_vars

\* Generate has chosen token 0 from logits whose two entries are equal, and
\* before it token 1.
C29_Witness ==
    /\ gen.pc = "loop"
    /\ gen.i >= 2
    /\ Logits \in DOMAIN tens
    /\ Size(tens[Logits]) = 2
    /\ Data(heap, tens[Logits], 0) = Data(heap, tens[Logits], 1)
    /\ gen.finalSeq[Len(gen.finalSeq)] = 0
    /\ gen.finalSeq[Len(gen.finalSeq) - 1] = 1

\* ------------------------------------------ claims: the cache's buffers
\* The buffer a held view w was taken from.
BufferOf(w) == IF w.op = "KCache" THEN KArr(w.layer) ELSE VArr(w.layer)

\* C30: a cache has 2 * nLayers buffers, each its own array; a write
\* through a view of one buffer changes that one element of that buffer
\* and nothing of any other buffer, of the cache or of a view; a Reshape
\* of a view changes the shape of that view only: the cache, its buffers
\* of shape [maxSeqLen, dim], the elements and the other view stay as
\* they were, and a view taken afterwards has the shape it would have had.
C30_BuffersAreDisjoint ==
    [][/\ (ret'.op = "WriteView" /\ ret'.status = "ok") =>
              LET w == views[ret'.slot]
              IN  /\ Cardinality(LayerBuffers(kc)) = 2 * kc.nLayers
                  /\ LayerBuffers(kc) \subseteq DOMAIN heap
                  /\ w.t.arr = BufferOf(w)
                  /\ DOMAIN heap' = DOMAIN heap
                  /\ \A arr \in DOMAIN heap :
                         arr # BufferOf(w) => heap'[arr] = heap[arr]
                  /\ \A j \in DOMAIN heap[BufferOf(w)] :
                         j # w.t.off + ret'.i =>
                             heap'[BufferOf(w)][j] = heap[BufferOf(w)][j]
                  /\ kc' = kc
                  /\ views' = views
       /\ (ret'.op = "Reshape" /\ ret'.status = "ok") =>
              LET w == views[ret'.slot]
              IN  /\ kc' = kc
                  /\ heap' = heap
                  /\ \A arr \in LayerBuffers(kc') :
                         CacheTensor(arr, kc').shape
                             = <<MaxSeqLen(kc), Dim(kc)>>
                  /\ \A x \in Slots \ {ret'.slot} : views'[x] = views[x]
                  /\ views'[ret'.slot] = [w EXCEPT !.t.shape = ret'.shape]
                  /\ CacheView(heap', kc', BufferOf(w), w.start).shape
                         = <<U32(Length(kc) - w.start), Dim(kc)>>]_vars

\* Two views of the same buffer are held, an element has been written
\* through one of them, and one has been reshaped while the other has
\* kept its shape.
C30_Witness ==
    /\ ret.op = "Reshape"
    /\ ret.status = "ok"
    /\ nWrites = 1
    /\ views[1].held
    /\ views[2].held
    /\ views[1].t.arr = views[2].t.arr
    /\ views[1].t.length = views[2].t.length
    /\ views[ret.slot].t.shape = ret.shape
    /\ \E x \in Slots : views[x].t.shape # ret.shape
    /\ \E j \in DOMAIN heap[views[1].t.arr] : heap[views[1].t.arr][j] # 0

================================================================================
